---- MODULE Spec2Model ----
(***************************************************************************)
(* Model of the SRV resolution engine of go-srvclient (src/srvclient.go):  *)
(* the query executor (innerLookupSRV / doExchange), the last-good cache   *)
(* (doCacheLast), the in-flight coalescer (lookupSRV with SingleInFlight)  *)
(* and the facade (srv / allSRV / pickSRV).                                *)
(*                                                                         *)
(* DNS messages live in a heap of objects addressed by small integers      *)
(* (0 is the nil pointer), because the code shares *dns.Msg pointers       *)
(* between the cache, the runs and the callers and mutates them in place.  *)
(***************************************************************************)
EXTENDS Integers, Sequences, FiniteSets, TLC

\* ---------------------------------------------------------------- bounds
\* the calls made in one behaviour; each caller makes one, since a second call
\* by the same caller is no different from a call by another one
NCallers == 3

Callers == 1 .. NCallers
RunIds == Callers                    \* a call starts one run at most: run c is call c's
ObjIds == 1 .. (2 * NCallers + 3)

\* ------------------------------------------------------- program constants
RcodeSuccess == 0
RcodeFormatError == 1

\* ------------------------------------------------------------ environment
Hostnames == {"srv.test", "srv.test.", "alt.test"}
ServerLists == {<<"10.0.0.53:53">>, <<"10.0.0.53:53", "8.8.8.8:53">>, <<>>}
CtxKinds == {"background", "live", "cancelled"}
Ops == {"SRV", "SRVNoTranslate", "SRVNoCache", "AllSRV", "AllSRVTranslate", "AllSRVNoCache",
        "SRVNoPort", "MaybeSRV"}

\* dns.Fqdn: append the root label unless it is already there
Fqdn(h) == IF Len(h) > 0 /\ SubSeq(h, Len(h), Len(h)) = "." THEN h ELSE h \o "."

\* arguments that carry a port: a name, an IPv4 literal and an IPv6 literal
PortInputs == {"srv.test:9999", "10.0.0.2:9999", "[2607:5300:60:92e7::1]:53"}

\* the hosts of the literals: allSRV, which has no check for them, looks them up
LiteralHosts == {"10.0.0.2", "2607:5300:60:92e7::1"}

Fqdns == {Fqdn(h) : h \in Hostnames \cup LiteralHosts}

\* ------------------------------------------------------ strings and net
Char(s, i) == SubSeq(s, i, i)

\* strings.IndexByte from place i on: the first place of ch in s (0: none)
RECURSIVE IndexFrom(_, _, _)
IndexFrom(s, ch, i) ==
    IF i > Len(s) THEN 0
    ELSE IF Char(s, i) = ch THEN i
    ELSE IndexFrom(s, ch, i + 1)

\* strings.LastIndexByte: the last place of ch in the first i bytes of s (0: none)
RECURSIVE LastIndexTo(_, _, _)
LastIndexTo(s, ch, i) ==
    IF i < 1 THEN 0
    ELSE IF Char(s, i) = ch THEN i
    ELSE LastIndexTo(s, ch, i - 1)

\* strings.Split(s, ch)
RECURSIVE Split(_, _)
Split(s, ch) ==
    LET i == IndexFrom(s, ch, 1)
    IN IF i = 0 THEN <<s>>
       ELSE <<SubSeq(s, 1, i - 1)>> \o Split(SubSeq(s, i + 1, Len(s)), ch)

Contains(s, ch) == IndexFrom(s, ch, 1) # 0

\* net.SplitHostPort: "host:port", "[host]:port"; host and port are "" and ok
\* is FALSE (an error is returned) when the argument has no port, too many
\* colons or misplaced brackets
SplitHostPort(hostport) ==
    LET none == [host |-> "", port |-> "", ok |-> FALSE]
        n == Len(hostport)
        i == LastIndexTo(hostport, ":", n)
        end == IndexFrom(hostport, "]", 1)
    IN IF i = 0 THEN none
       ELSE IF Char(hostport, 1) = "["
       THEN IF end = 0 \/ end + 1 # i THEN none
            ELSE IF Contains(SubSeq(hostport, 2, n), "[")
                    \/ Contains(SubSeq(hostport, end + 1, n), "]")
            THEN none
            ELSE [host |-> SubSeq(hostport, 2, end - 1), port |-> SubSeq(hostport, i + 1, n),
                  ok |-> TRUE]
       ELSE IF Contains(SubSeq(hostport, 1, i - 1), ":")
               \/ Contains(hostport, "[") \/ Contains(hostport, "]")
       THEN none
       ELSE [host |-> SubSeq(hostport, 1, i - 1), port |-> SubSeq(hostport, i + 1, n),
             ok |-> TRUE]

DecDigits == {"0", "1", "2", "3", "4", "5", "6", "7", "8", "9"}
HexDigits == DecDigits \cup {"a", "b", "c", "d", "e", "f", "A", "B", "C", "D", "E", "F"}

AllIn(s, chars) == \A i \in 1 .. Len(s) : Char(s, i) \in chars

DigitValue(ch) ==
    CASE ch = "0" -> 0 [] ch = "1" -> 1 [] ch = "2" -> 2 [] ch = "3" -> 3 [] ch = "4" -> 4
      [] ch = "5" -> 5 [] ch = "6" -> 6 [] ch = "7" -> 7 [] ch = "8" -> 8 [] ch = "9" -> 9

RECURSIVE DecValue(_)
DecValue(s) ==
    IF Len(s) = 0 THEN 0
    ELSE 10 * DecValue(SubSeq(s, 1, Len(s) - 1)) + DigitValue(Char(s, Len(s)))

\* a field of a dotted IPv4 address: one to three digits, no leading zero, <= 255
IsOctet(s) ==
    /\ Len(s) \in 1 .. 3
    /\ AllIn(s, DecDigits)
    /\ Len(s) > 1 => Char(s, 1) # "0"
    /\ DecValue(s) <= 255

IsIPv4(s) ==
    LET parts == Split(s, ".")
    IN Len(parts) = 4 /\ \A i \in 1 .. 4 : IsOctet(parts[i])

\* the places of s where "::" starts
Ellipses(s) == {i \in 1 .. (Len(s) - 1) : SubSeq(s, i, i + 1) = "::"}

\* an IPv6 address in hexadecimal groups (no zone, no dotted tail): eight
\* groups of one to four digits, or fewer with one "::"
IsIPv6(s) ==
    LET groups == Split(s, ":")
        full == {i \in 1 .. Len(groups) : groups[i] # ""}
    IN /\ Len(s) >= 2
       /\ \A i \in full : Len(groups[i]) <= 4 /\ AllIn(groups[i], HexDigits)
       /\ Cardinality(Ellipses(s)) <= 1
       /\ Char(s, 1) = ":" => 1 \in Ellipses(s)
       /\ Char(s, Len(s)) = ":" => (Len(s) - 1) \in Ellipses(s)
       /\ IF Ellipses(s) = {} THEN Cardinality(full) = 8 ELSE Cardinality(full) <= 7

\* a faulty variant takes no host for an IP address
ParseIPNever(s) == FALSE

\* net.ParseIP(s) # nil
ParseIP(s) == IsIPv4(s) \/ IsIPv6(s)

\* fmt's %v of a []string: the elements separated by one space
RECURSIVE JoinSpace(_)
JoinSpace(s) ==
    IF Len(s) = 0 THEN ""
    ELSE IF Len(s) = 1 THEN s[1]
    ELSE s[1] \o " " \o JoinSpace(Tail(s))

\* a faulty variant forgets the server list
cacheKeyNameOnly(fqdn, srvs) == fqdn \o ":"

cacheKey(fqdn, srvs) == fqdn \o ":" \o "[" \o JoinSpace(srvs) \o "]"

Keys == {cacheKey(f, s) : f \in Fqdns, s \in ServerLists}
           \cup {cacheKeyNameOnly(f, s) : f \in Fqdns, s \in ServerLists}

\* ---------------------------------------------------------------- errors
NoErr == [kind |-> "nil", arg |-> ""]
\* a faulty variant keeps the error of the first server
ExchangeErrFirst(server) == [kind |-> "exchange", arg |-> "10.0.0.53:53"]

\* the error of an exchange with server
ExchangeErr(server) == [kind |-> "exchange", arg |-> server]
CtxErr == [kind |-> "context", arg |-> ""]
\* the *net.AddrError of net.SplitHostPort
AddrError(addr) == [kind |-> "address", arg |-> addr]
ErrNoNameservers == [kind |-> "no available nameservers", arg |-> ""]
ErrNotFound(hostname) == [kind |-> "ErrNotFound", arg |-> hostname]

\* --------------------------------------------------------------- messages
SRVRec(target, port, prio, weight) ==
    [type |-> "SRV", name |-> "srv.test.", target |-> target,
     port |-> port, priority |-> prio, weight |-> weight]

ARec(name, ip) ==
    [type |-> "A", name |-> name, target |-> ip,
     port |-> 0, priority |-> 0, weight |-> 0]

\* a CNAME record: an answer record that is no SRV record
CNAMERec(name, target) ==
    [type |-> "CNAME", name |-> name, target |-> target,
     port |-> 0, priority |-> 0, weight |-> 0]

Msg(rcode, truncated, answer, extra) ==
    [rcode |-> rcode, truncated |-> truncated, answer |-> answer, extra |-> extra]

\* an unallocated heap cell
Free == Msg(-1, FALSE, <<>>, <<>>)

GoodAnswer == <<SRVRec("2.srv.test.", 1001, 2, 1), SRVRec("1.srv.test.", 1000, 1, 1)>>
GoodExtra == <<ARec("1.srv.test.", "10.0.0.1")>>
TcpExtra == <<ARec("1.srv.test.", "10.0.0.2")>>

\* what a nameserver may answer to one wire exchange ("error": none at all)
Response(kind) ==
    CASE kind = "good" -> Msg(RcodeSuccess, FALSE, GoodAnswer, GoodExtra)
      [] kind = "good2" -> Msg(RcodeSuccess, FALSE, GoodAnswer, TcpExtra)
      [] kind = "empty" -> Msg(RcodeSuccess, FALSE, <<>>, <<>>)
      [] kind = "aonly" -> Msg(RcodeSuccess, FALSE, <<ARec("srv.test.", "11.0.0.1")>>, <<>>)
      [] kind = "servfail" -> Msg(2, FALSE, <<>>, <<>>)
      [] kind = "nxdomain" -> Msg(3, FALSE, <<CNAMERec("srv.test.", "gone.test.")>>, <<>>)
      [] kind = "formerr" -> Msg(RcodeFormatError, FALSE, <<>>, <<>>)
      [] kind = "trunc" -> Msg(RcodeSuccess, TRUE, GoodAnswer, GoodExtra)
      [] kind = "truncfail" -> Msg(2, TRUE, <<>>, <<>>)

Outcomes == {"error", "good", "good2", "empty", "aonly", "servfail", "nxdomain", "formerr",
             "trunc", "truncfail"}

\* strconv.Itoa on the ports the nameservers hand out
Itoa(n) == CASE n = 1000 -> "1000" [] n = 1001 -> "1001" [] OTHER -> "0"

IPv6Literals == {"2607:5300:60:92e7::1"}

\* net.JoinHostPort: brackets around a host that contains a colon
JoinHostPort(host, port) ==
    IF host \in IPv6Literals THEN "[" \o host \o "]:" \o port
    ELSE host \o ":" \o port

srvToStr(srv, port) ==
    JoinHostPort(srv.target, IF port = "" THEN Itoa(srv.port) ELSE port)

\* --------------------------------------------------------- replaceSRVTarget
RECURSIVE replaceSRVTarget(_, _)
replaceSRVTarget(r, extra) ==
    IF Len(extra) = 0 THEN r
    ELSE replaceSRVTarget(
            IF Head(extra).type \in {"A", "AAAA"} /\ Head(extra).name = r.target
            THEN [r EXCEPT !.target = Head(extra).target]
            ELSE r,
            Tail(extra))

\* answersFromMsg returns the SRV records of m; with replaceWithIPs it rewrites
\* the Target of those records inside m itself. TranslatedMsg is m afterwards.
TranslatedMsg(m, replaceWithIPs) ==
    IF ~replaceWithIPs THEN m
    ELSE [m EXCEPT !.answer =
            [i \in 1 .. Len(m.answer) |->
                IF m.answer[i].type = "SRV"
                THEN replaceSRVTarget(m.answer[i], m.extra)
                ELSE m.answer[i]]]

answersFromMsg(m, replaceWithIPs) ==
    SelectSeq(TranslatedMsg(m, replaceWithIPs).answer, LAMBDA rr : rr.type = "SRV")

\* ------------------------------------------------------------------ pickSRV
RECURSIVE MinPriority(_)
MinPriority(srvs) ==
    IF Len(srvs) = 1 THEN srvs[1].priority
    ELSE LET m == MinPriority(Tail(srvs))
         IN IF srvs[1].priority < m THEN srvs[1].priority ELSE m

\* a faulty variant keeps the picks it has when a lower priority shows up
RECURSIVE PickLoopNoReset(_, _, _, _)
PickLoopNoReset(srvs, i, lowPrio, picks) ==
    IF i > Len(srvs) THEN picks
    ELSE LET lp == IF srvs[i].priority < lowPrio THEN srvs[i].priority ELSE lowPrio
         IN PickLoopNoReset(srvs, i + 1, lp,
                IF srvs[i].priority = lp THEN Append(picks, srvs[i]) ELSE picks)

\* lines 615-627: the first loop from record i on, with lowPrio and picks so far
RECURSIVE PickLoop(_, _, _, _)
PickLoop(srvs, i, lowPrio, picks) ==
    IF i > Len(srvs) THEN picks
    ELSE LET lower == srvs[i].priority < lowPrio
             lp == IF lower THEN srvs[i].priority ELSE lowPrio
             ps == IF lower THEN <<>> ELSE picks
         IN PickLoop(srvs, i + 1, lp,
                IF srvs[i].priority = lp THEN Append(ps, srvs[i]) ELSE ps)

\* picks after the first loop
Picks(srvs) == PickLoop(srvs, 1, srvs[1].priority, <<>>)

RECURSIVE SumWeights(_)
SumWeights(picks) ==
    IF Len(picks) = 0 THEN 0 ELSE picks[1].weight + SumWeights(Tail(picks))

\* a faulty variant stops one draw late: at r <= 0
RECURSIVE WalkWeightsLate(_, _)
WalkWeightsLate(picks, r) ==
    IF Len(picks) = 0 THEN 0
    ELSE IF r - picks[1].weight <= 0 THEN 1
    ELSE LET k == WalkWeightsLate(Tail(picks), r - picks[1].weight)
         IN IF k = 0 THEN 0 ELSE k + 1

\* the second loop: subtract the weights from the draw r until it is negative
RECURSIVE WalkWeights(_, _)
WalkWeights(picks, r) ==
    IF Len(picks) = 0 THEN 0
    ELSE IF r - picks[1].weight < 0 THEN 1
    ELSE LET k == WalkWeights(Tail(picks), r - picks[1].weight)
         IN IF k = 0 THEN 0 ELSE k + 1

\* pickSRV with the value r that rand.Intn(sum) returned
pickSRV(srvs, r) ==
    LET picks == Picks(srvs)
        sum == SumWeights(picks)
        k == WalkWeights(picks, r)
    IN IF Len(picks) = 1 THEN picks[1]
       ELSE IF sum > 0 /\ k > 0 THEN picks[k]
       ELSE picks[1]

\* the draws rand.Intn can return for srvs (one dummy draw where it is not called)
Draws(srvs) ==
    LET sum == SumWeights(Picks(srvs))
    IN IF Len(Picks(srvs)) > 1 /\ sum > 0 THEN 0 .. (sum - 1) ELSE {0}

\* ------------------------------------------------------------ sort.SliceStable
\* a faulty variant compares the priorities only
LessPriorityOnly(a, b) == a.priority < b.priority

Less(a, b) ==
    IF a.priority = b.priority THEN a.weight > b.weight ELSE a.priority < b.priority

RECURSIVE InsertStable(_, _)
InsertStable(sorted, x) ==
    IF Len(sorted) = 0 THEN <<x>>
    ELSE IF Less(x, sorted[Len(sorted)])
         THEN Append(InsertStable(SubSeq(sorted, 1, Len(sorted) - 1), x), sorted[Len(sorted)])
         ELSE Append(sorted, x)

RECURSIVE SliceStable(_)
SliceStable(s) ==
    IF Len(s) = 0 THEN <<>>
    ELSE InsertStable(SliceStable(SubSeq(s, 1, Len(s) - 1)), s[Len(s)])


\* the Preprocess hooks tried: none, the test's "keep the first answer", and a
\* hook that is not idempotent, "drop the first answer"
Hooks == {"nil", "first", "tail"}

ApplyHook(hook, m) ==
    CASE hook = "first" -> [m EXCEPT !.answer = IF Len(m.answer) > 0 THEN <<m.answer[1]>> ELSE <<>>]
      [] hook = "tail" -> [m EXCEPT !.answer = IF Len(m.answer) > 0 THEN Tail(m.answer) ELSE <<>>]
      [] OTHER -> m

\* ---------------------------------------------------------------- contexts
\* A context: its kind ("background", "cancel" for a *cancelCtx, "timer" for a
\* *timerCtx, "withoutCancel"), the context it was made from, the deadline of
\* a timer (0: none), the deadline WithDeadline was asked for (0: made by
\* another function), whether its own Done channel is closed and the error it
\* then has, what closed it ("own": its cancel function, "timer": its
\* deadline, "parent": the context it is a child of), and the context whose
\* cancellation it follows (0: none).
MaxCtxs == 4
MaxTime == 2

Background ==
    [kind |-> "background", parent |-> 0, deadline |-> 0, asked |-> 0, closed |-> FALSE,
     err |-> "nil", by |-> "", link |-> 0]

\* a faulty variant hands out the channel of the parent
DoneOfParent(cs, i) ==
    IF cs[i].kind \in {"cancel", "timer"} THEN i
    ELSE IF cs[i].kind = "withoutCancel" /\ cs[cs[i].parent].kind \in {"cancel", "timer"}
    THEN cs[i].parent
    ELSE 0

\* Done(): the context whose channel it returns, 0 for the nil channel, which
\* withoutCancel returns (ctx.go:26-29) as context.Background() does
Done(cs, i) == IF cs[i].kind \in {"cancel", "timer"} THEN i ELSE 0

\* Deadline(): 0 for "no deadline", which withoutCancel returns (ctx.go:32-34);
\* a *cancelCtx has the deadline of its parent
RECURSIVE Deadline(_, _)
Deadline(cs, i) ==
    CASE cs[i].kind = "timer" -> cs[i].deadline
      [] cs[i].kind = "cancel" -> Deadline(cs, cs[i].parent)
      [] OTHER -> 0

\* Err(): withoutCancel does not define it, so it is the embedded context's
RECURSIVE Err(_, _)
Err(cs, i) ==
    CASE cs[i].kind \in {"cancel", "timer"} -> cs[i].err
      [] cs[i].kind = "withoutCancel" -> Err(cs, cs[i].parent)
      [] OTHER -> "nil"

\* ctx_test.go:11-18: the Done channel is closed
canceled(cs, i) == Done(cs, i) # 0 /\ cs[Done(cs, i)].closed

\* the contexts that follow the cancellation of one of S (a child is made
\* after its parent, so one pass in the order of making finds them all)
RECURSIVE Linked(_, _, _)
Linked(cs, S, k) ==
    IF k > Len(cs) THEN S
    ELSE Linked(cs, IF cs[k].link \in S THEN S \cup {k} ELSE S, k + 1)

\* cancel: the contexts S close with err, and the open contexts that follow them
Cancelled(cs, S, err, by) ==
    [i \in 1 .. Len(cs) |->
        IF i \in Linked(cs, S, 1) /\ ~cs[i].closed
        THEN [cs[i] EXCEPT !.closed = TRUE, !.err = err,
                           !.by = IF i \in S THEN by ELSE "parent"]
        ELSE cs[i]]

\* propagateCancel: a child of a parent whose Done() is nil follows nothing; a
\* child of a parent that is cancelled is cancelled at once; any other child
\* follows the context whose channel the parent's Done() is
Child(cs, p, kind, deadline, asked) ==
    LET d == Done(cs, p)
        c == [kind |-> kind, parent |-> p, deadline |-> deadline, asked |-> asked,
              closed |-> FALSE, err |-> "nil", by |-> "", link |-> d]
    IN IF d # 0 /\ cs[d].closed
       THEN [c EXCEPT !.closed = TRUE, !.err = Err(cs, p), !.by = "parent"]
       ELSE c

\* -------------------------------------------------------------------- state
VARIABLES
    SingleInFlight,    \* SRVClient.SingleInFlight
    IgnoreTruncated,   \* SRVClient.IgnoreTruncated
    Preprocess,        \* SRVClient.Preprocess: "nil" or the hook installed
    servers,           \* the server list clientConfig() hands out now
    cacheEnabled,      \* sc.cacheLast # nil
    cacheLast,         \* sc.cacheLast: fqdn -> message object (0: no entry)
    heap,              \* the *dns.Msg objects
    inFlights,         \* sc.inFlights: key -> run (0: no entry)
    runs,              \* the executions of innerLookupSRV and their inFlightRes
    calls,             \* the public calls in progress, one per caller
    stats,             \* the seven counters
    crashed,           \* a goroutine panicked: the process is gone
    nRuns,             \* inFlightRes objects that were stored in the registry so far
    ctxs,              \* the contexts made so far, context.Background() the first
    now                \* the clock the deadlines are measured on

lookupVars == <<SingleInFlight, IgnoreTruncated, Preprocess, servers, cacheEnabled, cacheLast,
                heap, inFlights, runs, calls, stats, crashed, nRuns>>

vars == <<SingleInFlight, IgnoreTruncated, Preprocess, servers, cacheEnabled, cacheLast, heap,
          inFlights, runs, calls, stats, crashed, nRuns, ctxs, now>>

config == <<SingleInFlight, IgnoreTruncated, Preprocess>>

NoRun ==
    [state |-> "none", sif |-> FALSE, ctxOf |-> 0, key |-> "", fqdn |-> "",
     servers |-> <<>>, skipCache |-> FALSE, idx |-> 0, res |-> 0, tres |-> 0,
     err |-> NoErr, msg |-> 0, rerr |-> NoErr, done |-> FALSE,
     nudp |-> 0, ntcp |-> 0, sawCancel |-> FALSE, serial |-> 0, hit |-> FALSE,
     log |-> <<>>]

\* what a call returned: the addresses and the error, and for the record the
\* message it was handed, the way it got it, the run's own result, and (sub)
\* what the method it wraps returned to it
NoRet ==
    [addrs |-> <<>>, err |-> NoErr, msg |-> Free, via |-> "", panicked |-> FALSE,
     serial |-> 0, runMsg |-> Free, runErr |-> NoErr, runDone |-> FALSE,
     runHit |-> FALSE, log |-> <<>>, sub |-> [addrs |-> <<>>, err |-> NoErr]]

NoCall ==
    [pc |-> "idle", op |-> "", hostname |-> "", fqdn |-> "", servers |-> <<>>,
     ctx |-> "background", res |-> 0, loaded |-> FALSE, late |-> FALSE, early |-> FALSE,
     branch |-> "", input |-> "", port |-> "",
     ret |-> NoRet]

ZeroStats ==
    [numUDPQueries |-> 0, numTCPQueries |-> 0, numTruncatedResponses |-> 0,
     numExchangeErrors |-> 0, numCacheLastHits |-> 0, numCacheLastMisses |-> 0,
     numInFlightHits |-> 0]

\* which public method a call is: (single or all, replaceWithIPs, skipCache)
IsAll(op) == op \in {"AllSRV", "AllSRVTranslate", "AllSRVNoCache"}
ReplaceWithIPs(op) == op \in {"SRV", "SRVNoCache", "AllSRVTranslate", "SRVNoPort", "MaybeSRV"}
SkipCache(op) == op \in {"SRVNoCache", "AllSRVNoCache"}

Init ==
    /\ SingleInFlight \in BOOLEAN
    /\ IgnoreTruncated \in BOOLEAN
    /\ Preprocess \in Hooks
    /\ servers \in ServerLists
    /\ cacheEnabled \in BOOLEAN      \* EnableCacheLast called while setting up, or not
    /\ cacheLast = [f \in Fqdns |-> 0]
    /\ heap = [o \in ObjIds |-> Free]
    /\ inFlights = [k \in Keys |-> 0]
    /\ runs = [r \in RunIds |-> NoRun]
    /\ calls = [c \in Callers |-> NoCall]
    /\ stats = ZeroStats
    /\ crashed = FALSE
    /\ nRuns = 0
    /\ ctxs = <<Background>>
    /\ now = 0

\* ----------------------------------------------------------- housekeeping
\* the lowest free cell of heap h
Alloc(h) == CHOOSE o \in ObjIds : h[o] = Free /\ \A p \in ObjIds : p < o => h[p] # Free

\* a run record is dropped once its work is over and no call holds it
TidyRuns(cs, rs) ==
    [r \in RunIds |->
        IF rs[r].state \in {"closed", "returned"}
           /\ \A c \in Callers : ~(cs[c].res = r /\ cs[c].pc \notin {"idle", "done"})
        THEN NoRun ELSE rs[r]]

\* a message is dropped once neither the cache nor a run points at it
TidyHeap(rs, cache, h) ==
    LET live == {cache[f] : f \in Fqdns}
                  \cup {rs[r].res : r \in RunIds}
                  \cup {rs[r].tres : r \in RunIds}
                  \cup {rs[r].msg : r \in RunIds}
    IN [o \in ObjIds |-> IF o \in live THEN h[o] ELSE Free]


\* --------------------------------------------------------------- doExchange
\* a faulty variant takes the format error for the server's outcome
doExchangeNoRetry(edns, out, out2) == out

\* One doExchange: the outcome of the first wire exchange, and of the retry
\* without EDNS0 that follows a format error when the query carried EDNS0
\* (size # 0: every exchange that is not over TCP).
doExchange(edns, out, out2) ==
    IF out = "error" THEN "error"
    ELSE IF Response(out).rcode # RcodeFormatError \/ ~edns THEN out
    ELSE out2

\* the wire exchanges that doExchange makes with server over net, in order: the
\* query as built in lines 174-180, and the second query of lines 195-197
Exchanges(net, server, edns, out, out2) ==
    LET first == [net |-> net, server |-> server, edns |-> edns, out |-> out]
    IN IF out = "error" \/ Response(out).rcode # RcodeFormatError \/ ~edns
       THEN <<first>>
       ELSE <<first, [net |-> net, server |-> server, edns |-> FALSE, out |-> out2]>>

\* the context innerLookupSRV runs under is cancelled
RunCancelled(run) == run.ctxOf # 0 /\ calls[run.ctxOf].ctx = "cancelled"

\* a faulty variant stops the loop at an exchange that errors
ContinueStop(run) == [run EXCEPT !.idx = run.idx + 1, !.state = "finish"]

\* the "continue" of the server loop
Continue(run) ==
    [run EXCEPT !.idx = run.idx + 1,
                !.state = IF run.idx + 1 > Len(run.servers) THEN "finish" ELSE "udp"]

\* a faulty variant goes on to the next server after a usable response
BreakContinue(run) == Continue(run)

\* line 234: the "break" of the server loop
Break(run) == [run EXCEPT !.state = "finish"]

\* a faulty variant takes every truncated response to TCP
TruncatedNextTCP(ignore) == "tcp"

\* lines 222-231: after a truncated response, the TCP exchange with the same
\* server unless IgnoreTruncated is set; the next server when it is
TruncatedNext(ignore) == IF ~ignore THEN "tcp" ELSE "continue"

Bump(st, field) == [st EXCEPT ![field] = st[field] + 1]

\* lines 211-234: one UDP exchange of the server loop and what follows it
RunUDP(r, out, out2) ==
    /\ ~crashed
    /\ runs[r].state = "udp"
    /\ LET run == runs[r]
           server == run.servers[run.idx]
           cancelled == RunCancelled(run)
           got == IF cancelled THEN "error" ELSE doExchange(TRUE, out, out2)
           st1 == Bump(stats, "numUDPQueries")
           wire == IF cancelled THEN Exchanges("udp", server, TRUE, "error", "error")
                   ELSE Exchanges("udp", server, TRUE, out, out2)
           run1 == [run EXCEPT !.nudp = run.nudp + 1,
                               !.sawCancel = run.sawCancel \/ cancelled,
                               !.log = run.log \o wire]
       IN IF got = "error"
          THEN /\ stats' = Bump(st1, "numExchangeErrors")
               /\ runs' = [runs EXCEPT ![r] = Continue(
                              [run1 EXCEPT !.res = 0,
                                           !.err = IF cancelled THEN CtxErr
                                                   ELSE ExchangeErr(server)])]
               /\ heap' = TidyHeap(runs', cacheLast, heap)
          ELSE LET o == Alloc(TidyHeap([runs EXCEPT ![r].res = 0], cacheLast, heap))
                   m == Response(got)
                   h1 == [heap EXCEPT ![o] = m]
                   run2 == [run1 EXCEPT !.res = o, !.err = NoErr]
               IN IF m.truncated
                  THEN /\ stats' = Bump(st1, "numTruncatedResponses")
                       /\ runs' = [runs EXCEPT ![r] =
                                     IF TruncatedNext(IgnoreTruncated) = "tcp"
                                     THEN [run2 EXCEPT !.tres = o, !.state = "tcp"]
                                     ELSE Continue([run2 EXCEPT !.tres = o])]
                       /\ heap' = TidyHeap(runs', cacheLast, h1)
                  ELSE /\ stats' = st1
                       /\ runs' = [runs EXCEPT ![r] = Break(run2)]
                       /\ heap' = TidyHeap(runs', cacheLast, h1)
    /\ UNCHANGED <<config, ctxs, now, servers, cacheEnabled, cacheLast, inFlights, calls,
                   crashed, nRuns>>

\* lines 222-228: the TCP exchange after a truncated UDP response
RunTCP(r, out) ==
    /\ ~crashed
    /\ runs[r].state = "tcp"
    /\ LET run == runs[r]
           server == run.servers[run.idx]
           cancelled == RunCancelled(run)
           got == IF cancelled THEN "error" ELSE doExchange(FALSE, out, out)
           wire == IF cancelled THEN Exchanges("tcp", server, FALSE, "error", "error")
                   ELSE Exchanges("tcp", server, FALSE, out, out)
           run1 == [run EXCEPT !.ntcp = run.ntcp + 1,
                               !.sawCancel = run.sawCancel \/ cancelled,
                               !.log = run.log \o wire]
       IN IF got = "error"
          THEN /\ stats' = Bump(Bump(stats, "numTCPQueries"), "numExchangeErrors")
               /\ runs' = [runs EXCEPT ![r] = Continue(
                              [run1 EXCEPT !.res = 0,
                                           !.err = IF cancelled THEN CtxErr
                                                   ELSE ExchangeErr(server)])]
               /\ heap' = TidyHeap(runs', cacheLast, heap)
          ELSE LET o == Alloc(heap)
               IN /\ stats' = Bump(stats, "numTCPQueries")
                  /\ runs' = [runs EXCEPT ![r] =
                                Break([run1 EXCEPT !.res = o, !.err = NoErr])]
                  /\ heap' = TidyHeap(runs', cacheLast, [heap EXCEPT ![o] = Response(got)])
    /\ UNCHANGED <<config, ctxs, now, servers, cacheEnabled, cacheLast, inFlights, calls,
                   crashed, nRuns>>


\* -------------------------------------------------------------- doCacheLast
\* a faulty variant does not count the lookups that find no entry
doCacheLastNoMiss(enabled, c, h, st, hostname, res) ==
    IF ~enabled THEN [res |-> res, cache |-> c, stats |-> st]
    ELSE IF res = 0 \/ Len(h[res].answer) = 0
    THEN IF c[hostname] # 0
         THEN [res |-> c[hostname], cache |-> c, stats |-> Bump(st, "numCacheLastHits")]
         ELSE [res |-> res, cache |-> c, stats |-> st]
    ELSE [res |-> res, cache |-> [c EXCEPT ![hostname] = res], stats |-> st]

\* a faulty variant never finds an entry: a failed lookup stays failed
doCacheLastNoHit(enabled, c, h, st, hostname, res) ==
    IF ~enabled THEN [res |-> res, cache |-> c, stats |-> st]
    ELSE IF res = 0 \/ Len(h[res].answer) = 0
    THEN [res |-> res, cache |-> c, stats |-> Bump(st, "numCacheLastMisses")]
    ELSE [res |-> res, cache |-> [c EXCEPT ![hostname] = res], stats |-> st]

\* doCacheLast(hostname, res) on cache c, heap h and counters st: the message it
\* returns, the cache and the counters afterwards.
doCacheLast(enabled, c, h, st, hostname, res) ==
    IF ~enabled THEN [res |-> res, cache |-> c, stats |-> st]
    ELSE IF res = 0 \/ Len(h[res].answer) = 0
    THEN IF c[hostname] # 0
         THEN [res |-> c[hostname], cache |-> c, stats |-> Bump(st, "numCacheLastHits")]
         ELSE [res |-> res, cache |-> c, stats |-> Bump(st, "numCacheLastMisses")]
    ELSE [res |-> res, cache |-> [c EXCEPT ![hostname] = res], stats |-> st]

\* doCacheLast went from counters st to d.stats: it returned the stored entry
Hit(d, st) == d.stats.numCacheLastHits # st.numCacheLastHits

\* the order a faulty do would have: the signal fired before the entry is gone
DeferredSwapped == <<"close", "delete">>

\* the deferred calls of do, in the order they run: the last one deferred first
Deferred == <<"delete", "close">>

AfterDeferred(step) == IF step = Deferred[1] THEN Deferred[2] ELSE "closed"

\* innerLookupSRV returns (res, err): do stores them in the inFlightRes and its
\* deferred calls follow; without SingleInFlight the caller has them directly
Returned(run, res) ==
    [run EXCEPT !.res = res, !.msg = res, !.rerr = run.err,
                !.state = IF run.sif THEN Deferred[1] ELSE "returned"]

\* a faulty variant never goes back to the truncated response
PreferTruncatedNever(h, res, tres) == FALSE

\* line 255: res is a response that is no success and tres one that is
PreferTruncated(h, res, tres) ==
    /\ res # 0
    /\ h[res].rcode # RcodeSuccess
    /\ tres # 0
    /\ h[tres].rcode = RcodeSuccess

\* a faulty variant leaves the message as the server sent it
PreprocessNone(hook, h, o) == h

\* lines 237-244: sc.Preprocess(m) on the message in cell o of heap h, when a
\* hook is set and there is such a message
PreprocessMsg(hook, h, o) ==
    IF hook # "nil" /\ o # 0 THEN [h EXCEPT ![o] = ApplyHook(hook, h[o])] ELSE h

\* lines 237-263: Preprocess, the cache, and the truncated response preferred
\* to a later response that is no success
RunFinish(r) ==
    /\ ~crashed
    /\ runs[r].state = "finish"
    /\ LET run == runs[r]
           h1 == PreprocessMsg(Preprocess, heap, run.res)
           h2 == PreprocessMsg(Preprocess, h1, run.tres)
           d == IF run.skipCache
                THEN [res |-> run.res, cache |-> cacheLast, stats |-> stats]
                ELSE doCacheLast(cacheEnabled, cacheLast, h2, stats, run.fqdn, run.res)
           useTres == PreferTruncated(h2, d.res, run.tres)
       IN /\ cacheLast' = d.cache
          /\ stats' = d.stats
          /\ runs' = [runs EXCEPT ![r] =
                IF useTres /\ ~run.skipCache
                THEN [run EXCEPT !.res = run.tres, !.state = "finish2"]
                ELSE Returned([run EXCEPT !.hit = Hit(d, stats) /\ ~useTres],
                              IF useTres THEN run.tres ELSE d.res)]
          /\ heap' = TidyHeap(runs', cacheLast', h2)
    /\ UNCHANGED <<config, ctxs, now, servers, cacheEnabled, inFlights, calls, crashed, nRuns>>

\* lines 257-260: the truncated response goes through the cache in its turn
RunFinish2(r) ==
    /\ ~crashed
    /\ runs[r].state = "finish2"
    /\ LET run == runs[r]
           d == doCacheLast(cacheEnabled, cacheLast, heap, stats, run.fqdn, run.tres)
       IN /\ cacheLast' = d.cache
          /\ stats' = d.stats
          /\ runs' = [runs EXCEPT ![r] = Returned([run EXCEPT !.hit = Hit(d, stats)], d.res)]
          /\ heap' = TidyHeap(runs', cacheLast', heap)
    /\ UNCHANGED <<config, ctxs, now, servers, cacheEnabled, inFlights, calls, crashed, nRuns>>

\* a faulty variant leaves the entry where it is
DeleteNothing(reg, key) == reg

\* sync.Map.Delete(key) on the registry reg
Delete(reg, key) == [reg EXCEPT ![key] = 0]

\* line 313: defer sc.inFlights.Delete(key)
RunDelete(r) ==
    /\ ~crashed
    /\ runs[r].state = "delete"
    /\ inFlights' = Delete(inFlights, runs[r].key)
    /\ runs' = TidyRuns(calls, [runs EXCEPT ![r].state = AfterDeferred("delete")])
    /\ heap' = TidyHeap(runs', cacheLast, heap)
    /\ UNCHANGED <<config, ctxs, now, servers, cacheEnabled, cacheLast, calls, stats, crashed, nRuns>>

\* line 312: defer close(res.done): from now on the res.done case of every
\* select on this run is ready (and the do that ran in line has returned)
RunClose(r) ==
    /\ ~crashed
    /\ runs[r].state = "close"
    /\ runs' = TidyRuns(calls, [runs EXCEPT ![r].done = TRUE,
                                            ![r].state = AfterDeferred("close")])
    /\ heap' = TidyHeap(runs', cacheLast, heap)
    /\ UNCHANGED <<config, ctxs, now, servers, cacheEnabled, cacheLast, inFlights, calls, stats,
                   crashed, nRuns>>

\* ---------------------------------------------------------------- lookupSRV
NewRun(sif, ctxOf, key, fqdn, srvs, skipCache) ==
    [NoRun EXCEPT !.state = IF Len(srvs) = 0 THEN "finish" ELSE "udp",
                  !.sif = sif, !.ctxOf = ctxOf, !.key = key, !.fqdn = fqdn,
                  !.servers = srvs, !.skipCache = skipCache, !.idx = 1]

\* a faulty variant hands do the caller's own context
RunCtxOwn(c, cx) == c

\* lines 318-324: the context do runs under: the caller's own when it can never
\* be cancelled, withoutCancel{ctx} (0: nobody can cancel it) otherwise
RunCtx(c, cx) == IF cx = "background" THEN c ELSE 0

\* the caller takes the registered inFlightRes (late: the run had completed by then)
Join(call, r) ==
    [call EXCEPT !.pc = "select", !.res = r, !.loaded = TRUE, !.late = runs[r].done]

\* a faulty variant counts a hit for the caller that stored the entry as well
CountHitAlways(st, loaded) == Bump(st, "numInFlightHits")

\* lines 310-327: numInFlightHits grows when the entry was loaded, not stored
CountHit(st, loaded) == IF loaded THEN Bump(st, "numInFlightHits") ELSE st

\* lines 362-370: srv returns an "ip:port" argument as it is, and takes the
\* name and the port of a "name:port" argument apart
srvHead(input) ==
    LET sp == SplitHostPort(input)
    IN IF sp.port # "" /\ sp.host # ""
       THEN IF ParseIP(sp.host)
            THEN [literal |-> TRUE, hostname |-> input, port |-> ""]
            ELSE [literal |-> FALSE, hostname |-> sp.host, port |-> sp.port]
       ELSE [literal |-> FALSE, hostname |-> input, port |-> ""]

\* lines 517-521: allSRV takes an argument with one colon apart
allSRVHead(input) ==
    LET parts == Split(input, ":")
    IN IF Len(parts) = 2
       THEN [literal |-> FALSE, hostname |-> parts[1], port |-> parts[2]]
       ELSE [literal |-> FALSE, hostname |-> input, port |-> ""]

\* lines 589-590: MaybeSRVContext returns an argument that has a port as it
\* is, and calls SRVContext with any other
MaybeSRVHead(input) ==
    IF SplitHostPort(input).port # ""
    THEN [literal |-> TRUE, hostname |-> input, port |-> ""]
    ELSE srvHead(input)

MethodHead(op, input) ==
    IF IsAll(op) THEN allSRVHead(input)
    ELSE IF op = "MaybeSRV" THEN MaybeSRVHead(input)
    ELSE srvHead(input)

\* lines 456-462: SRVNoPortContext returns "" with the error of SRVContext
\* when there is one, and otherwise the host of the address
SRVNoPortTail(s) ==
    IF s.err # NoErr THEN [addrs |-> <<>>, err |-> s.err]
    ELSE LET sp == SplitHostPort(s.addrs[1])
         IN [addrs |-> IF sp.host = "" THEN <<>> ELSE <<sp.host>>,
             err |-> IF sp.ok THEN NoErr ELSE AddrError(s.addrs[1])]

\* lines 591-596: MaybeSRVContext returns the address when SRVContext returned
\* no error, and its argument otherwise
MaybeSRVTail(input, s) ==
    [addrs |-> IF s.err = NoErr THEN s.addrs ELSE <<input>>, err |-> NoErr]

\* what the public method makes of the result s of srv or allSRV
MethodTail(op, input, s) ==
    IF op = "SRVNoPort" THEN SRVNoPortTail(s)
    ELSE IF op = "MaybeSRV" THEN MaybeSRVTail(input, s)
    ELSE s

\* lines 361-370, 285-298 and 336: a public method is called: srv returns a
\* literal at once; otherwise the configuration is read
\* and, with SingleInFlight, the registry is asked (Load) for a run to join;
\* without SingleInFlight the caller goes straight into innerLookupSRV
CallBegin(c, op, h, cx) ==
    /\ ~crashed
    /\ calls[c].pc = "idle"
    /\ \A d \in Callers : d < c => calls[d].pc # "idle"   \* callers are alike: lowest first
    /\ LET hd == MethodHead(op, h)
           fqdn == Fqdn(hd.hostname)
           call == [NoCall EXCEPT !.op = op, !.input = h, !.hostname = hd.hostname,
                                  !.port = hd.port, !.fqdn = fqdn,
                                  !.servers = servers, !.ctx = cx]
           key == cacheKey(fqdn, servers)
       IN IF hd.literal
          THEN /\ calls' = [calls EXCEPT ![c] =
                              [NoCall EXCEPT !.pc = "done", !.op = op, !.input = h,
                                             !.hostname = h, !.ctx = cx,
                                             !.ret =
                                 LET s == [addrs |-> <<h>>, err |-> NoErr]
                                     out == MethodTail(op, h, s)
                                 IN [NoRet EXCEPT !.addrs = out.addrs, !.err = out.err,
                                                  !.via = "literal", !.sub = s]]]
               /\ UNCHANGED <<runs, stats>>
          ELSE IF ~SingleInFlight
          THEN /\ calls' = [calls EXCEPT ![c] = [call EXCEPT !.pc = "inner", !.res = c]]
               /\ runs' = [runs EXCEPT ![c] =
                              NewRun(FALSE, c, "", fqdn, servers, SkipCache(op))]
               /\ stats' = stats
          ELSE IF inFlights[key] # 0
          THEN /\ calls' = [calls EXCEPT ![c] = Join(call, inFlights[key])]
               /\ stats' = CountHit(stats, TRUE)
               /\ runs' = runs
          ELSE /\ calls' = [calls EXCEPT ![c] = [call EXCEPT !.pc = "loadOrStore"]]
               /\ UNCHANGED <<runs, stats>>
    /\ UNCHANGED <<config, ctxs, now, servers, cacheEnabled, cacheLast, heap, inFlights,
                   crashed, nRuns>>

\* a faulty variant stores without looking: a plain Store
StoreLoaded(key) == FALSE

\* line 303: LoadOrStore reports whether the key already had an entry
LoadOrStoreLoaded(key) == inFlights[key] # 0

\* lines 300-324: LoadOrStore; the caller that stored starts do, in line when its
\* context can never be cancelled, in a goroutine otherwise
CallLoadOrStore(c) ==
    /\ ~crashed
    /\ calls[c].pc = "loadOrStore"
    /\ LET call == calls[c]
           key == cacheKey(call.fqdn, call.servers)
       IN IF LoadOrStoreLoaded(key)
          THEN /\ calls' = [calls EXCEPT ![c] = Join(call, inFlights[key])]
               /\ stats' = CountHit(stats, TRUE)
               /\ UNCHANGED <<inFlights, runs, nRuns>>
          ELSE /\ inFlights' = [inFlights EXCEPT ![key] = c]
               /\ runs' = [runs EXCEPT ![c] =
                              [NewRun(TRUE, RunCtx(c, call.ctx), key, call.fqdn,
                                      call.servers, SkipCache(call.op))
                                 EXCEPT !.serial = c]]
               /\ calls' = [calls EXCEPT ![c] =
                              [call EXCEPT !.res = c, !.pc = "select"]]
               /\ nRuns' = nRuns + 1
               /\ stats' = CountHit(stats, FALSE)
    /\ UNCHANGED <<config, ctxs, now, servers, cacheEnabled, cacheLast, heap, crashed>>

\* The caller's context is cancelled, or its deadline passes. Nothing reads the
\* context before the select (with SingleInFlight) or the exchanges (without), so
\* a cancellation that comes earlier is taken there.
Cancel(c) ==
    /\ ~crashed
    /\ calls[c].pc \in {"select", "inner"}
    /\ calls[c].ctx = "live"
    /\ calls' = [calls EXCEPT ![c].ctx = "cancelled",
                              ![c].early = /\ calls[c].pc = "select"
                                           /\ ~runs[calls[c].res].done]
    /\ UNCHANGED <<config, ctxs, now, servers, cacheEnabled, cacheLast, heap, inFlights, runs,
                   stats, crashed, nRuns>>

\* a faulty variant hands the caller the shared message itself
CopyAlias(h, o) == o

\* line 332: res.msg.Copy() is a deep copy in a fresh message
CopyTarget(h, o) == Alloc(h)

\* a faulty variant takes a response without SRV records for no response
LookupTailNoResponse(h, m, err, hostname, replaceWithIPs) ==
    IF m = 0 \/ Len(answersFromMsg(h[m], replaceWithIPs)) = 0
    THEN [ans |-> <<>>, err |-> IF err = NoErr THEN ErrNoNameservers ELSE err, heap |-> h]
    ELSE [ans |-> answersFromMsg(h[m], replaceWithIPs), err |-> err,
          heap |-> [h EXCEPT ![m] = TranslatedMsg(h[m], replaceWithIPs)]]

\* lines 339-351: from the message and the error to the records and the error
\* lookupSRV returns; answersFromMsg rewrites the message in place
LookupTail(h, m, err, hostname, replaceWithIPs) ==
    IF m = 0
    THEN [ans |-> <<>>, err |-> IF err = NoErr THEN ErrNoNameservers ELSE err, heap |-> h]
    ELSE LET ans == answersFromMsg(h[m], replaceWithIPs)
             h1 == [h EXCEPT ![m] = TranslatedMsg(h[m], replaceWithIPs)]
         IN IF Len(ans) = 0
            THEN [ans |-> <<>>, err |-> ErrNotFound(hostname), heap |-> h1]
            ELSE [ans |-> ans, err |-> err, heap |-> h1]

\* a faulty variant drops the error once there is a record to pick
srvTailMasked(ans, err, portStr, draw) ==
    IF Len(ans) = 0 /\ err # NoErr THEN [addrs |-> <<>>, err |-> err]
    ELSE [addrs |-> <<srvToStr(pickSRV(ans, draw), portStr)>>, err |-> NoErr]

\* lines 372-382: srv picks one record; "" with the error when there is none
srvTail(ans, err, portStr, draw) ==
    IF Len(ans) = 0 /\ err # NoErr THEN [addrs |-> <<>>, err |-> err]
    ELSE [addrs |-> <<srvToStr(pickSRV(ans, draw), portStr)>>, err |-> err]

\* lines 523-543: allSRV sorts the records and formats each
allSRVTail(ans, err, ogPort) ==
    IF Len(ans) = 0 /\ err # NoErr THEN [addrs |-> <<>>, err |-> err]
    ELSE LET sorted == SliceStable(ans)
         IN [addrs |-> [i \in 1 .. Len(sorted) |-> srvToStr(sorted[i], ogPort)],
             err |-> err]

\* a faulty variant returns the run's error on the ctx.Done() case too
SelectErrOfRun(branch, rerr) == rerr

\* lines 329-333: the error the select leaves in err
SelectErr(branch, rerr) == IF branch = "done" THEN rerr ELSE CtxErr

\* lines 332-351 and the tail of srv / allSRV: the caller has its case of the
\* select (or, without SingleInFlight, innerLookupSRV has returned): the rest of
\* lookupSRV and of the public method, up to its return
Return(c, sif, branch, draw) ==
    LET call == calls[c]
        run == runs[call.res]
        viaDone == sif /\ branch = "done"
        panics == viaDone /\ run.msg = 0
        m == IF ~sif THEN run.msg
             ELSE IF viaDone /\ ~panics THEN CopyTarget(heap, run.msg)
             ELSE 0
        h1 == IF viaDone /\ ~panics THEN [heap EXCEPT ![m] = heap[run.msg]] ELSE heap
        err0 == IF sif THEN SelectErr(branch, run.rerr) ELSE run.rerr
        lk == LookupTail(h1, m, err0, call.hostname, ReplaceWithIPs(call.op))
        inner == IF IsAll(call.op) THEN allSRVTail(lk.ans, lk.err, call.port)
                 ELSE srvTail(lk.ans, lk.err, call.port, draw)
        out == MethodTail(call.op, call.input, inner)
        over == run.done \/ ~sif
        ret == [addrs |-> IF panics THEN <<>> ELSE out.addrs,
                err |-> IF panics THEN NoErr ELSE out.err,
                msg |-> IF m = 0 THEN Free ELSE h1[m],
                via |-> IF sif THEN branch ELSE "direct",
                panicked |-> panics,
                serial |-> run.serial,
                runMsg |-> IF run.msg = 0 \/ ~over THEN Free ELSE heap[run.msg],
                runErr |-> IF over THEN run.rerr ELSE NoErr,
                runDone |-> over,
                runHit |-> over /\ run.hit,
                log |-> IF over THEN run.log ELSE <<>>,
                sub |-> IF panics THEN NoRet.sub ELSE inner]
    IN /\ draw \in (IF IsAll(call.op) \/ Len(lk.ans) = 0 \/ panics THEN {0} ELSE Draws(lk.ans))
       /\ crashed' = panics
       /\ calls' = [calls EXCEPT ![c] =
                       [call EXCEPT !.pc = IF panics THEN "panicked" ELSE "done",
                                    !.res = 0, !.branch = branch, !.ret = ret]]
       /\ runs' = TidyRuns(calls', runs)
       /\ heap' = TidyHeap(runs', cacheLast, lk.heap)

\* lines 328-334: the select, taken once a case is ready. A caller that blocked
\* in it takes the case that wakes it; a caller that reaches it late finds both
\* ready and the runtime picks either: the second covers every outcome of the
\* first. The call then goes on to its return.
CallSelect(c, pick, draw) ==
    /\ ~crashed
    /\ calls[c].pc = "select"
    /\ pick \in (IF calls[c].ctx = "cancelled" THEN {"ctx"} ELSE {})
                  \cup (IF runs[calls[c].res].done THEN {"done"} ELSE {})
    /\ Return(c, TRUE, pick, draw)
    /\ UNCHANGED <<config, ctxs, now, servers, cacheEnabled, cacheLast, inFlights, stats, nRuns>>

\* without SingleInFlight: innerLookupSRV has returned to the caller (line 336),
\* which goes on to its return
CallReturn(c, draw) ==
    /\ ~crashed
    /\ calls[c].pc = "inner"
    /\ runs[calls[c].res].state = "returned"
    /\ Return(c, FALSE, "", draw)
    /\ UNCHANGED <<config, ctxs, now, servers, cacheEnabled, cacheLast, inFlights, stats, nRuns>>

\* a faulty variant makes a new map at every call
MakeCacheLastAnew(enabled, c) == [f \in Fqdns |-> 0]

\* lines 84-86: the map is made when there is none
MakeCacheLast(enabled, c) == IF enabled THEN c ELSE [f \in Fqdns |-> 0]

\* EnableCacheLast: the map is made once; a second call changes nothing
EnableCacheLast ==
    /\ ~crashed
    /\ cacheEnabled' = TRUE
    /\ cacheLast' = MakeCacheLast(cacheEnabled, cacheLast)
    /\ heap' = TidyHeap(runs, cacheLast', heap)
    /\ UNCHANGED <<config, ctxs, now, servers, inFlights, runs, calls, stats, crashed, nRuns>>

\* the resolver configuration provider hands out another server list from now on
ConfigChange(s) ==
    /\ ~crashed
    /\ s # servers
    /\ servers' = s
    /\ UNCHANGED <<config, ctxs, now, cacheEnabled, cacheLast, heap, inFlights, runs, calls,
                   stats, crashed, nRuns>>

\* ------------------------------------------------------------ specification
\* every value rand.Intn can return for the answers the nameservers give
AllDraws == 0 .. (SumWeights(Picks(GoodAnswer)) - 1)

\* a public method is called by one of the callers cs
CallSteps(cs, ops, hs, cxs) ==
    \E c \in cs, op \in ops, h \in hs, cx \in cxs : CallBegin(c, op, h, cx)

\* without SingleInFlight the caller returns once innerLookupSRV has
DirectSteps(cs) ==
    \E c \in cs, draw \in AllDraws : CallReturn(c, draw)

\* the steps SingleInFlight adds: the registry, the select, and do's deferred calls
CoalesceSteps(cs) ==
    \/ \E c \in cs : CallLoadOrStore(c)
    \/ \E c \in cs, pick \in {"ctx", "done"}, draw \in AllDraws : CallSelect(c, pick, draw)
    \/ \E r \in RunIds : RunDelete(r)
    \/ \E r \in RunIds : RunClose(r)

\* innerLookupSRV with the nameservers answering from udp
ExecSteps(udp) ==
    \/ \E r \in RunIds, out \in udp, out2 \in udp : RunUDP(r, out, out2)
    \/ \E r \in RunIds : RunFinish(r)

\* the steps of innerLookupSRV that only a truncated response leads to
TruncSteps(tcp) ==
    \/ \E r \in RunIds, out \in tcp : RunTCP(r, out)
    \/ \E r \in RunIds : RunFinish2(r)

OneServer == <<"10.0.0.53:53">>
TwoServers == <<"10.0.0.53:53", "8.8.8.8:53">>

\* The coalescer: SingleInFlight set, one server that answers or fails, no
\* cache, NCallers callers of SRV on one name.
InitCoalesce ==
    /\ Init
    /\ ~cacheEnabled
    /\ SingleInFlight
    /\ ~IgnoreTruncated
    /\ Preprocess = "nil"
    /\ servers = OneServer

NextCoalesce ==
    \/ CallSteps(Callers, {"SRV"}, {"srv.test"}, {"background", "live"})
    \/ CoalesceSteps(Callers)
    \/ ExecSteps({"error", "good"})
    \/ \E c \in Callers : Cancel(c)

SpecCoalesce == InitCoalesce /\ [][NextCoalesce]_vars

\* The registry keys: SingleInFlight set, no cache, callers of SRV on names
\* that share or do not share their fully-qualified form, while the resolver
\* configuration goes from one server list to a longer one.
InitKeys ==
    /\ Init
    /\ ~cacheEnabled
    /\ SingleInFlight
    /\ ~IgnoreTruncated
    /\ Preprocess = "nil"
    /\ servers = OneServer

NextKeys ==
    \/ CallSteps(Callers, {"SRV"}, Hostnames, {"live"})
    \/ CoalesceSteps(Callers)
    \/ ExecSteps({"good"})
    \/ \E s \in {TwoServers} : ConfigChange(s)

SpecKeys == InitKeys /\ [][NextKeys]_vars

\* The copies: SingleInFlight set, the last-good cache in use, callers of SRV
\* (which translates) and of AllSRV (which does not) on one name.
InitCopies ==
    /\ Init
    /\ cacheEnabled
    /\ SingleInFlight
    /\ ~IgnoreTruncated
    /\ Preprocess = "nil"
    /\ servers = OneServer

NextCopies ==
    \/ CallSteps(Callers, {"SRV", "AllSRV"}, {"srv.test"}, {"background", "live"})
    \/ CoalesceSteps(Callers)
    \/ ExecSteps({"error", "good"})

SpecCopies == InitCopies /\ [][NextCopies]_vars

\* The last-good cache: no SingleInFlight, EnableCacheLast called before or
\* between the calls, callers of SRV on one name, a server that answers with
\* records, with none, or fails.
InitCache ==
    /\ Init
    /\ ~SingleInFlight
    /\ ~IgnoreTruncated
    /\ Preprocess = "nil"
    /\ servers = OneServer

NextCache ==
    \/ CallSteps(Callers, {"SRV"}, {"srv.test"}, {"background"})
    \/ DirectSteps(Callers)
    \/ ExecSteps({"error", "good", "good2", "empty"})
    \/ EnableCacheLast

SpecCache == InitCache /\ [][NextCache]_vars

\* What the cache stores: no SingleInFlight, the last-good cache in use,
\* callers of SRV on one name, a server that fails, or answers with records,
\* with none, with A records only, or with a status that is no success.
InitStore ==
    /\ Init
    /\ cacheEnabled
    /\ ~SingleInFlight
    /\ ~IgnoreTruncated
    /\ Preprocess = "nil"
    /\ servers = OneServer

NextStore ==
    \/ CallSteps(Callers, {"SRV"}, {"srv.test"}, {"background"})
    \/ DirectSteps(Callers)
    \/ ExecSteps({"error", "good", "empty", "aonly", "servfail", "nxdomain"})

SpecStore == InitStore /\ [][NextStore]_vars

\* The entries of the cache: no SingleInFlight, EnableCacheLast called at any
\* time and again, callers of SRV on two names, a server that answers with
\* one response or another, or fails.
InitEntries ==
    /\ Init
    /\ ~SingleInFlight
    /\ ~IgnoreTruncated
    /\ Preprocess = "nil"
    /\ servers = OneServer

NextEntries ==
    \/ CallSteps(Callers, {"SRV"}, {"srv.test", "alt.test"}, {"background"})
    \/ DirectSteps(Callers)
    \/ ExecSteps({"error", "good", "good2"})
    \/ EnableCacheLast

SpecEntries == InitEntries /\ [][NextEntries]_vars

\* The calls that skip the cache: SingleInFlight set, the last-good cache in
\* use, callers of SRV and of SRVNoCacheContext on one name.
InitNoCache ==
    /\ Init
    /\ cacheEnabled
    /\ SingleInFlight
    /\ ~IgnoreTruncated
    /\ Preprocess = "nil"
    /\ servers = OneServer

NextNoCache ==
    \/ CallSteps(Callers, {"SRV", "SRVNoCache"}, {"srv.test"}, {"background", "live"})
    \/ CoalesceSteps(Callers)
    \/ ExecSteps({"error", "good"})

SpecNoCache == InitNoCache /\ [][NextNoCache]_vars

\* The shared message: no SingleInFlight, the last-good cache in use, callers
\* of SRV (which translates) and of AllSRV (which does not) on one name.
InitShared ==
    /\ Init
    /\ cacheEnabled
    /\ ~SingleInFlight
    /\ ~IgnoreTruncated
    /\ Preprocess = "nil"
    /\ servers = OneServer

NextShared ==
    \/ CallSteps(Callers, {"SRV", "AllSRV"}, {"srv.test"}, {"background"})
    \/ DirectSteps(Callers)
    \/ ExecSteps({"error", "good"})

SpecShared == InitShared /\ [][NextShared]_vars

\* The selector and the sort on their own: the nameserver has answered one
\* caller of SRVNoTranslate or of AllSRV with any list of up to MaxAnswers SRV
\* records, and the caller goes on from line 336 to its return.
MaxAnswers == 3
Priorities == {1, 2}
Weights == {0, 1, 2}
TargetNames == <<"a.", "b.", "c.", "d.", "e.">>
AnswerShapes == [priority : Priorities, weight : Weights]
AnswerLists == UNION {[1 .. n -> AnswerShapes] : n \in 1 .. MaxAnswers}
AnswerOf(l) ==
    [i \in 1 .. Len(l) |-> SRVRec(TargetNames[i], 1000, l[i].priority, l[i].weight)]
MaxWeight == CHOOSE w \in Weights : \A v \in Weights : v <= w
PickDraws == 0 .. (MaxAnswers * MaxWeight - 1)

\* innerLookupSRV has returned message 1 with answer l to caller 1 of op
AnsweredCall(op) ==
    [NoCall EXCEPT !.pc = "inner", !.op = op, !.input = "srv.test",
                   !.hostname = "srv.test", !.fqdn = Fqdn("srv.test"), !.servers = OneServer, !.res = 1]

AnsweredRun ==
    Returned([NewRun(FALSE, 1, "", Fqdn("srv.test"), OneServer, FALSE)
                 EXCEPT !.res = 1, !.nudp = 1], 1)

InitPick ==
    /\ SingleInFlight = FALSE
    /\ IgnoreTruncated = FALSE
    /\ Preprocess = "nil"
    /\ servers = OneServer
    /\ cacheEnabled = FALSE
    /\ cacheLast = [f \in Fqdns |-> 0]
    /\ inFlights = [k \in Keys |-> 0]
    /\ stats = Bump(ZeroStats, "numUDPQueries")
    /\ crashed = FALSE
    /\ nRuns = 0
    /\ ctxs = <<Background>>
    /\ now = 0
    /\ runs = [r \in RunIds |-> IF r = 1 THEN AnsweredRun ELSE NoRun]
    /\ \E l \in AnswerLists, op \in {"SRVNoTranslate", "AllSRV"} :
          /\ heap = [o \in ObjIds |->
                        IF o = 1 THEN Msg(RcodeSuccess, FALSE, AnswerOf(l), <<>>) ELSE Free]
          /\ calls = [c \in Callers |-> IF c = 1 THEN AnsweredCall(op) ELSE NoCall]

NextPick == \E draw \in PickDraws : CallReturn(1, draw)

SpecPick == InitPick /\ [][NextPick]_vars

\* The query executor: no SingleInFlight, no cache, one call of SRV or of
\* AllSRV, with no server, one or two, TCP fallback on or off, and servers that
\* fail, answer (with records, with none, with records that are no SRV
\* records, with a status that is no success, with a format error) or answer
\* truncated; over TCP they fail or answer.
UdpOutcomes == {"error", "good", "empty", "aonly", "servfail", "formerr", "trunc",
                "truncfail"}
TcpOutcomes == {"error", "good2", "servfail"}

InitExec ==
    /\ Init
    /\ ~cacheEnabled
    /\ ~SingleInFlight
    /\ Preprocess = "nil"

NextExec ==
    \/ CallSteps({1}, {"SRV", "AllSRV"}, {"srv.test"}, {"background"})
    \/ DirectSteps({1})
    \/ ExecSteps(UdpOutcomes)
    \/ TruncSteps(TcpOutcomes)

SpecExec == InitExec /\ [][NextExec]_vars

\* The arguments with a port: SingleInFlight set, the last-good cache in use,
\* calls of SRV with a name and a port, with an IPv4 literal and with an IPv6
\* literal, and calls of AllSRV with the IPv4 literal.
InitLiteral ==
    /\ Init
    /\ cacheEnabled
    /\ SingleInFlight
    /\ ~IgnoreTruncated
    /\ Preprocess = "nil"
    /\ servers = OneServer

NextLiteral ==
    \/ CallSteps(Callers, {"SRV"}, PortInputs, {"background"})
    \/ CallSteps(Callers, {"AllSRV"}, {"10.0.0.2:9999"}, {"background"})
    \/ CoalesceSteps(Callers)
    \/ ExecSteps({"error", "good"})

SpecLiteral == InitLiteral /\ [][NextLiteral]_vars

\* The wrappers of SRV: the last-good cache in use, with or without
\* SingleInFlight, callers of MaybeSRV and SRVNoPort with a name or a name and
\* a port, whose context may be cancelled while they wait, and a server that
\* fails, or answers with records or with none.
WrapperInputs == {"srv.test", "srv.test:80"}

InitWrappers ==
    /\ Init
    /\ cacheEnabled
    /\ ~IgnoreTruncated
    /\ Preprocess = "nil"
    /\ servers = OneServer

NextWrappers ==
    \/ CallSteps({1, 2}, {"MaybeSRV", "SRVNoPort"}, WrapperInputs, {"background", "live"})
    \/ DirectSteps({1, 2})
    \/ CoalesceSteps({1, 2})
    \/ ExecSteps({"error", "good", "empty"})
    \/ \E c \in {1, 2} : Cancel(c)

SpecWrappers == InitWrappers /\ [][NextWrappers]_vars

\* Calls under a context that is cancelled before the call: with or without
\* SingleInFlight, no cache, callers of SRV on one name whose context is the
\* background or already cancelled, a server that answers with records or
\* with none.
InitCancelled ==
    /\ Init
    /\ ~cacheEnabled
    /\ ~IgnoreTruncated
    /\ Preprocess = "nil"
    /\ servers = OneServer

NextCancelled ==
    \/ CallSteps(Callers, {"SRV"}, {"srv.test"}, {"background", "cancelled"})
    \/ DirectSteps(Callers)
    \/ CoalesceSteps(Callers)
    \/ ExecSteps({"good", "empty"})

SpecCancelled == InitCancelled /\ [][NextCancelled]_vars

\* The coalescer under fair scheduling: SingleInFlight set, no cache, two
\* callers of SRV on one name whose context may be cancelled while they wait,
\* a server that answers or fails. The goroutine of a run keeps being scheduled
\* and every exchange ends (with a response or an error), so a run takes its
\* next step; a caller whose select has a ready case takes it. Nothing obliges
\* a context to be cancelled.
LiveCallers == {1, 2}
LiveOutcomes == {"error", "good"}

RunSteps(r) ==
    \/ \E out \in LiveOutcomes, out2 \in LiveOutcomes : RunUDP(r, out, out2)
    \/ RunFinish(r)
    \/ RunDelete(r)
    \/ RunClose(r)

WaitSteps(c) ==
    \/ CallLoadOrStore(c)
    \/ \E pick \in {"ctx", "done"}, draw \in AllDraws : CallSelect(c, pick, draw)

NextLive ==
    \/ CallSteps(LiveCallers, {"SRV"}, {"srv.test"}, {"background", "live"})
    \/ \E r \in RunIds : RunSteps(r)
    \/ \E c \in LiveCallers : WaitSteps(c)
    \/ \E c \in LiveCallers : Cancel(c)

SpecLive ==
    /\ InitCoalesce
    /\ [][NextLive]_vars
    /\ \A r \in RunIds : WF_vars(RunSteps(r))
    /\ \A c \in LiveCallers : WF_vars(WaitSteps(c))

\* The same lookup again: with or without SingleInFlight, the last-good cache
\* in use, callers of AllSRV and AllSRVTranslate on one name, a server that
\* answers every query with one response or another.
InitTwice ==
    /\ Init
    /\ cacheEnabled
    /\ ~IgnoreTruncated
    /\ Preprocess = "nil"
    /\ servers = OneServer

NextTwice ==
    \/ CallSteps(Callers, {"AllSRV", "AllSRVTranslate"}, {"srv.test"}, {"background"})
    \/ DirectSteps(Callers)
    \/ CoalesceSteps(Callers)
    \/ ExecSteps({"good", "good2"})

SpecTwice == InitTwice /\ [][NextTwice]_vars

\* The registry: SingleInFlight set, no cache, callers of SRV on one name and
\* one of them maybe on another, whose context may be cancelled while they
\* wait, a server that answers or fails.
InitRegistry ==
    /\ Init
    /\ ~cacheEnabled
    /\ SingleInFlight
    /\ ~IgnoreTruncated
    /\ Preprocess = "nil"
    /\ servers = OneServer

NextRegistry ==
    \/ CallSteps(Callers, {"SRV"}, {"srv.test"}, {"live"})
    \/ CallSteps({2}, {"SRV"}, {"alt.test"}, {"live"})
    \/ CoalesceSteps(Callers)
    \/ ExecSteps({"error", "good"})
    \/ \E c \in Callers : Cancel(c)

SpecRegistry == InitRegistry /\ [][NextRegistry]_vars

\* The Preprocess hook: no SingleInFlight, the last-good cache in use, a hook
\* set ("keep the first answer" or "drop the first answer"), IgnoreTruncated
\* set or not, two callers of SRV or AllSRV on one name, a server that fails
\* or answers, in full or truncated, over UDP and over TCP.
HookUdp == {"error", "good", "trunc"}
HookTcp == {"error", "good2", "servfail"}

InitHook ==
    /\ Init
    /\ cacheEnabled
    /\ ~SingleInFlight
    /\ Preprocess # "nil"
    /\ servers = OneServer

NextHook ==
    \/ CallSteps({1, 2}, {"SRV", "AllSRV"}, {"srv.test"}, {"background"})
    \/ DirectSteps({1, 2})
    \/ ExecSteps(HookUdp)
    \/ TruncSteps(HookTcp)

SpecHook == InitHook /\ [][NextHook]_vars

\* context.WithCancel(parent)
WithCancel(p) ==
    /\ Len(ctxs) < MaxCtxs
    /\ ctxs' = Append(ctxs, Child(ctxs, p, "cancel", 0, 0))
    /\ UNCHANGED <<lookupVars, now>>

\* context.WithDeadline(parent, d): a parent whose deadline is earlier makes it
\* WithCancel(parent); a deadline that has passed cancels the context at once
WithDeadline(p, d) ==
    /\ Len(ctxs) < MaxCtxs
    /\ LET cur == Deadline(ctxs, p)
           c == IF cur # 0 /\ cur < d THEN Child(ctxs, p, "cancel", 0, d)
                ELSE Child(ctxs, p, "timer", d, d)
       IN ctxs' = Append(ctxs,
                     IF c.kind = "timer" /\ ~c.closed /\ d <= now
                     THEN [c EXCEPT !.closed = TRUE, !.err = "DeadlineExceeded",
                                    !.by = "timer"]
                     ELSE c)
    /\ UNCHANGED <<lookupVars, now>>

\* ctx.go:21-23: WithoutCancel(ctx) is withoutCancel{ctx}
WithoutCancel(p) ==
    /\ Len(ctxs) < MaxCtxs
    /\ ctxs' = Append(ctxs, [Background EXCEPT !.kind = "withoutCancel", !.parent = p])
    /\ UNCHANGED <<lookupVars, now>>

\* the cancel function of context i is called
CancelFunc(i) ==
    /\ ctxs[i].kind \in {"cancel", "timer"}
    /\ ~ctxs[i].closed
    /\ ctxs' = Cancelled(ctxs, {i}, "Canceled", "own")
    /\ UNCHANGED <<lookupVars, now>>

\* time passes: the timers whose deadline is reached fire
Tick ==
    /\ now < MaxTime
    /\ now' = now + 1
    /\ ctxs' = Cancelled(ctxs, {i \in 1 .. Len(ctxs) :
                                   ctxs[i].kind = "timer" /\ ctxs[i].deadline <= now + 1},
                         "DeadlineExceeded", "timer")
    /\ UNCHANGED lookupVars

\* The contexts on their own: context.Background(), and up to MaxCtxs contexts
\* made from one another with WithCancel, WithDeadline and WithoutCancel, whose
\* cancel functions are called and whose deadlines pass in any order.
InitCtx ==
    /\ Init
    /\ ~SingleInFlight
    /\ ~IgnoreTruncated
    /\ Preprocess = "nil"
    /\ servers = OneServer
    /\ ~cacheEnabled

NextCtx ==
    \/ \E p \in 1 .. Len(ctxs) : WithCancel(p)
    \/ \E p \in 1 .. Len(ctxs), d \in 1 .. MaxTime : WithDeadline(p, d)
    \/ \E p \in 1 .. Len(ctxs) : WithoutCancel(p)
    \/ \E i \in 1 .. Len(ctxs) : CancelFunc(i)
    \/ Tick

SpecCtx == InitCtx /\ [][NextCtx]_vars

Next ==
    \/ NextCtx
    \/ CallSteps(Callers, Ops, Hostnames, CtxKinds)
    \/ DirectSteps(Callers)
    \/ CoalesceSteps(Callers)
    \/ ExecSteps(Outcomes)
    \/ TruncSteps(Outcomes)
    \/ \E c \in Callers : Cancel(c)
    \/ EnableCacheLast
    \/ \E s \in ServerLists : ConfigChange(s)

Spec == Init /\ [][Next]_vars

\* ================================================================== claims
Ended(c) == calls[c].pc = "done"
Ret(c) == calls[c].ret
HasSRV(m) == \E i \in 1 .. Len(m.answer) : m.answer[i].type = "SRV"
InnerStates == {"udp", "tcp", "finish", "finish2"}
InInner(r) == runs[r].sif /\ runs[r].state \in InnerStates

\* C1: with SingleInFlight and one server, the callers that look a name up
\* while a run for it is under way share that run: the run stays registered
\* under its key until innerLookupSRV is over, it makes one UDP exchange
\* (UDPQueries grows by one per run), and every caller that is not cancelled
\* leaves through the run's result and, when the run has records, returns them
\* without an error, the same content for every caller of the run.
C1_OneRunOneExchange ==
    /\ \A r \in RunIds : InInner(r) => inFlights[runs[r].key] = r
    /\ \A r \in RunIds : runs[r].sif /\ Len(runs[r].servers) = 1
            => runs[r].nudp = (IF runs[r].state = "udp" THEN 0 ELSE 1)
    /\ stats.numUDPQueries = nRuns - Cardinality({r \in RunIds : runs[r].state = "udp"})
    /\ \A c \in Callers : Ended(c) /\ calls[c].ctx # "cancelled" => Ret(c).via = "done"
    /\ \A c \in Callers : Ended(c) /\ Ret(c).via = "done" /\ HasSRV(Ret(c).runMsg)
            => /\ Ret(c).err = NoErr
               /\ Ret(c).msg = Ret(c).runMsg
               /\ Ret(c).addrs = <<"10.0.0.1:1000">>
    /\ \A c, d \in Callers :
            Ended(c) /\ Ended(d) /\ Ret(c).via = "done" /\ Ret(d).via = "done"
                /\ Ret(c).serial = Ret(d).serial
            => Ret(c).msg = Ret(d).msg /\ Ret(c).addrs = Ret(d).addrs

\* every caller has returned the records of the one run there was
C1_Witness ==
    /\ nRuns = 1
    /\ stats.numUDPQueries = 1
    /\ \A c \in Callers : Ended(c) /\ Ret(c).serial = 1 /\ Ret(c).err = NoErr
                            /\ Ret(c).addrs = <<"10.0.0.1:1000">>

\* C2: with SingleInFlight no exchange of a run sees a cancelled context and no
\* run ends with a context error, whoever was cancelled, the caller that
\* started it included; a caller that is not cancelled leaves through the run's
\* completed result and returns its records without an error when it has any.
C2_RunOutlivesCancel ==
    /\ \A r \in RunIds : runs[r].sif
            => ~runs[r].sawCancel /\ runs[r].err # CtxErr /\ runs[r].rerr # CtxErr
    /\ \A c \in Callers : Ended(c) /\ calls[c].ctx # "cancelled"
            => /\ Ret(c).via = "done"
               /\ Ret(c).runDone
               /\ Ret(c).runErr # CtxErr
               /\ HasSRV(Ret(c).runMsg) => Ret(c).err = NoErr /\ Ret(c).addrs # <<>>

\* the caller that started the run was cancelled and left; the others got the records
C2_Witness ==
    /\ Ended(1) /\ ~calls[1].loaded /\ Ret(1).via = "ctx" /\ Ret(1).err = CtxErr
    /\ \A c \in Callers \ {1} :
          Ended(c) /\ Ret(c).serial = 1 /\ Ret(c).via = "done"
            /\ Ret(c).err = NoErr /\ Ret(c).addrs # <<>>

\* C4: with SingleInFlight, a caller that leaves through the result of a run
\* that failed (no message) returns the run's error; nobody crashes.
C4_FailureDelivered ==
    /\ ~crashed
    /\ \A c \in Callers : Ended(c) /\ Ret(c).via = "done" /\ Ret(c).runMsg = Free
            => Ret(c).err = Ret(c).runErr /\ Ret(c).addrs = <<>>

\* C5 as stated: a caller whose context was cancelled while the shared run had
\* not completed returns the context's error and no address.
C5_CancelledWhileRunning ==
    \A c \in Callers : Ended(c) /\ calls[c].early
        => Ret(c).err = CtxErr /\ Ret(c).addrs = <<>>

\* C5 (amended): with SingleInFlight, a caller whose wait ends while the run
\* has not completed leaves on its cancelled context and returns the context's
\* error and no address; a caller cancelled while the run had not completed
\* that leaves after the run completed returns either the context's error or
\* the run's own result; and no run ever sees the cancellation or has a result
\* that comes from one.
C5_CancelledCaller ==
    /\ \A c \in Callers : Ended(c) /\ ~Ret(c).runDone
            => calls[c].ctx = "cancelled" /\ Ret(c).via = "ctx"
    /\ \A c \in Callers : Ended(c) /\ Ret(c).via = "ctx"
            => /\ calls[c].ctx = "cancelled"
               /\ Ret(c).err = CtxErr /\ Ret(c).addrs = <<>> /\ Ret(c).msg = Free
    /\ \A c \in Callers : Ended(c) /\ calls[c].early
            => \/ Ret(c).via = "ctx"
               \/ Ret(c).via = "done" /\ Ret(c).runDone /\ Ret(c).msg = Ret(c).runMsg
    /\ \A r \in RunIds : runs[r].sif => ~runs[r].sawCancel /\ runs[r].rerr # CtxErr

\* a joiner left on its context while the run was under way, and the run then
\* gave its records to another caller
C5_Witness ==
    \E c, d \in Callers :
        /\ Ended(c) /\ calls[c].loaded /\ calls[c].early
        /\ ~Ret(c).runDone /\ Ret(c).err = CtxErr
        /\ Ended(d) /\ Ret(d).serial = Ret(c).serial /\ Ret(d).via = "done"
        /\ Ret(d).err = NoErr /\ Ret(d).addrs # <<>>

\* C6: a run whose completion signal has fired is no longer in the registry,
\* and no call ever joins a run that had already completed.
C6_DeleteBeforeClose ==
    /\ \A r \in RunIds : runs[r].sif /\ runs[r].done => inFlights[runs[r].key] # r
    /\ \A r \in RunIds : runs[r].sif /\ runs[r].state = "close" => inFlights[runs[r].key] # r
    /\ \A c \in Callers : ~calls[c].late

\* a caller was released by run 1 and a later call started a run of its own
C6_Witness ==
    /\ Ended(1) /\ Ret(1).via = "done" /\ Ret(1).serial = 1
    /\ \E c \in Callers \ {1} : calls[c].res = c /\ ~calls[c].loaded /\ InInner(c)

\* C7: InFlightHits is the number of calls that joined a registered run; the
\* call that stored the run is the one call of the run that did not count.
C7_InFlightHits ==
    /\ stats.numInFlightHits = Cardinality({c \in Callers : calls[c].loaded})
    /\ \A c \in Callers : calls[c].loaded => calls[c].res # c /\ Ret(c).serial # c
    /\ \A c \in Callers : calls[c].pc = "select" /\ ~calls[c].loaded => calls[c].res = c
    /\ stats.numInFlightHits + nRuns
          = Cardinality({c \in Callers : calls[c].pc \in {"select", "done", "panicked"}})

\* all the callers coalesced onto run 1, one of them was cancelled: N-1 hits
C7_Witness ==
    /\ \A c \in Callers : Ended(c) /\ Ret(c).serial = 1
    /\ \E c \in Callers : Ret(c).via = "ctx"
    /\ nRuns = 1
    /\ stats.numInFlightHits = NCallers - 1

Attached(c) == calls[c].pc = "select"

\* C3: at most one innerLookupSRV run is in progress per key, the key telling
\* the fully-qualified name and the server list apart: a run in progress is the
\* entry of its key, two runs in progress never have the same name and the same
\* server list, and a call only ever waits on a run that has its own name and
\* its own server list.
C3_OneRunPerKey ==
    /\ \A r \in RunIds : InInner(r)
            => /\ runs[r].key = cacheKey(runs[r].fqdn, runs[r].servers)
               /\ inFlights[runs[r].key] = r
    /\ \A k \in Keys : inFlights[k] # 0
            => runs[inFlights[k]].sif /\ runs[inFlights[k]].key = k
    /\ \A r, q \in RunIds : r # q /\ InInner(r) /\ InInner(q)
            => runs[r].fqdn # runs[q].fqdn \/ runs[r].servers # runs[q].servers
    /\ \A c \in Callers : Attached(c)
            => /\ runs[calls[c].res].fqdn = calls[c].fqdn
               /\ runs[calls[c].res].servers = calls[c].servers

\* two runs for one name are in progress, one per server list, and two callers
\* that spelled the name differently wait on the same one
C3_Witness ==
    \E r, q \in RunIds :
        /\ r # q /\ InInner(r) /\ InInner(q)
        /\ runs[r].fqdn = runs[q].fqdn /\ runs[r].servers # runs[q].servers
        /\ \E c, d \in Callers :
              /\ c # d /\ Attached(c) /\ Attached(d)
              /\ calls[c].res = r /\ calls[d].res = r
              /\ calls[c].hostname # calls[d].hostname

\* the messages as the nameservers send them
RawMsgs == {Response(k) : k \in Outcomes \ {"error"}}

\* C8: the translation one caller applies touches its own copy only: the
\* message of the run and the message in the last-good cache always are as the
\* nameserver sent them, a caller of AllSRV gets the targets as hostnames and a
\* caller of SRV gets the translated address, whoever came first.
C8_OwnCopy ==
    /\ \A f \in Fqdns : cacheLast[f] # 0 => heap[cacheLast[f]] \in RawMsgs
    /\ \A r \in RunIds : runs[r].sif /\ runs[r].msg # 0 => heap[runs[r].msg] \in RawMsgs
    /\ \A c \in Callers : Ended(c) /\ Ret(c).via = "done" /\ HasSRV(Ret(c).runMsg)
            => /\ Ret(c).msg = Ret(c).runMsg
               /\ Ret(c).msg \in RawMsgs
               /\ calls[c].op = "AllSRV"
                    => Ret(c).addrs = <<"1.srv.test.:1000", "2.srv.test.:1001">>
               /\ calls[c].op = "SRV" => Ret(c).addrs = <<"10.0.0.1:1000">>

\* a translating caller and a caller of AllSRV were released by the same run,
\* which had stored its message in the cache
C8_Witness ==
    /\ cacheLast["srv.test."] # 0
    /\ \E c, d \in Callers :
          /\ Ended(c) /\ Ended(d) /\ Ret(c).serial = Ret(d).serial
          /\ Ret(c).via = "done" /\ Ret(d).via = "done"
          /\ calls[c].op = "SRV" /\ Ret(c).addrs = <<"10.0.0.1:1000">>
          /\ calls[d].op = "AllSRV" /\ Len(Ret(d).addrs) = 2

\* every exchange of run r failed and the cache holds a response for its name
FailsWithEntry(r) ==
    /\ runs[r].state = "finish"
    /\ ~runs[r].skipCache
    /\ cacheEnabled
    /\ runs[r].res = 0
    /\ runs[r].err # NoErr
    /\ cacheLast[runs[r].fqdn] # 0

\* the address SRV makes of message m
AddrOf(m) == <<srvToStr(pickSRV(answersFromMsg(m, TRUE), 0), "")>>

\* C9: when every exchange of a lookup failed and the cache holds a response
\* for the name, the lookup goes on with the stored response, CacheLastHits
\* grows by exactly one and the cache is left as it was; the caller then has an
\* address made from the stored response.
C9_Substitute ==
    /\ [][\A r \in RunIds : FailsWithEntry(r) /\ runs'[r] # runs[r]
            => /\ runs'[r].msg = cacheLast[runs[r].fqdn]
               /\ stats'.numCacheLastHits = stats.numCacheLastHits + 1
               /\ stats'.numCacheLastMisses = stats.numCacheLastMisses
               /\ cacheLast' = cacheLast
               /\ heap'[cacheLast[runs[r].fqdn]] = heap[cacheLast[runs[r].fqdn]]]_vars
    /\ [](\A c \in Callers : Ended(c) /\ Ret(c).runErr # NoErr /\ HasSRV(Ret(c).runMsg)
            => /\ Ret(c).addrs = AddrOf(Ret(c).runMsg)
               /\ stats.numCacheLastHits >= 1
               /\ \E d \in Callers : d # c /\ calls[d].pc # "idle")

\* the first caller had records, the second had its exchange fail and returned
\* the address of the stored response: one hit
C9_Witness ==
    /\ Ended(1) /\ Ret(1).err = NoErr /\ Ret(1).addrs = <<"10.0.0.1:1000">>
    /\ Ended(2) /\ Ret(2).runErr = ExchangeErr("10.0.0.53:53")
    /\ Ret(2).addrs = <<"10.0.0.1:1000">>
    /\ stats.numCacheLastHits = 1

\* a returned call of SRV whose exchanges all failed and that was given the
\* stored response
Substituted(c) ==
    /\ Ended(c)
    /\ calls[c].op = "SRV"
    /\ Ret(c).runErr.kind = "exchange"
    /\ HasSRV(Ret(c).runMsg)

\* C10 as stated: the failure is masked, the call returns the previous result
\* and a nil error.
C10_Masked ==
    \A c \in Callers : Substituted(c) => Ret(c).addrs # <<>> /\ Ret(c).err = NoErr

\* C10 (amended): the call returns the previous result together with the
\* error of the failed exchange, which is not nil.
C10_ResultWithError ==
    \A c \in Callers : Substituted(c)
        => /\ Ret(c).addrs = AddrOf(Ret(c).runMsg)
           /\ Ret(c).err = Ret(c).runErr
           /\ Ret(c).err # NoErr

\* the second caller returned the stored address and the transport error
C10_Witness ==
    /\ Ended(1) /\ Ret(1).err = NoErr
    /\ Substituted(2)
    /\ Ret(2).addrs = <<"10.0.0.1:1000">>
    /\ Ret(2).err = ExchangeErr("10.0.0.53:53")

\* a returned call of SRV whose run was given the stored response by doCacheLast
GotSubstitute(c) ==
    /\ Ended(c)
    /\ calls[c].op = "SRV"
    /\ Ret(c).runHit
    /\ HasSRV(Ret(c).runMsg)

\* C11: a call that was given the stored response returns the address made
\* from it; the error beside it is the transport error when every exchange
\* failed, and nil when the server answered with no record.
C11_SubstituteAndError ==
    \A c \in Callers : GotSubstitute(c)
        => /\ Ret(c).addrs = AddrOf(Ret(c).runMsg)
           /\ Ret(c).runErr.kind \in {"exchange", "nil"}
           /\ Ret(c).runErr.kind = "exchange"
                => Ret(c).err = Ret(c).runErr /\ Ret(c).err # NoErr
           /\ Ret(c).runErr.kind = "nil" => Ret(c).err = NoErr

\* one call had the stored address with the transport error, another had it
\* with a nil error
C11_Witness ==
    \E c, d \in Callers :
        /\ GotSubstitute(c) /\ Ret(c).err = ExchangeErr("10.0.0.53:53")
        /\ Ret(c).addrs = <<"10.0.0.1:1000">>
        /\ GotSubstitute(d) /\ Ret(d).err = NoErr
        /\ Ret(d).addrs = <<"10.0.0.1:1000">>

\* run r ends its server loop with no record (no response at all, or one with
\* an empty answer) and the cache, in use, holds nothing for its name
FailsWithoutEntry(r) ==
    /\ runs[r].state = "finish"
    /\ ~runs[r].skipCache
    /\ cacheEnabled
    /\ runs[r].res = 0 \/ Len(heap[runs[r].res].answer) = 0
    /\ cacheLast[runs[r].fqdn] = 0

C13_OnlySuccessStored ==
    \A f \in Fqdns : cacheLast[f] # 0
        => /\ Len(heap[cacheLast[f]].answer) > 0
           /\ heap[cacheLast[f]].rcode = RcodeSuccess

\* the message of the entry for name f was just stored by a run for f
StoredByRun(f) ==
    \E r \in RunIds :
        /\ runs[r].state \in {"finish", "finish2"}
        /\ runs[r].fqdn = f
        /\ ~runs[r].skipCache
        /\ cacheLast'[f] \in {runs[r].res, runs[r].tres}
        /\ runs'[r].msg = cacheLast'[f]

\* C14: over any step, EnableCacheLast and every lookup outcome included, a
\* name that has an entry keeps one, with records in it; the entry changes
\* only to a response a run for that name now stores; and the cache, once in
\* use, stays in use.
C14_EntriesStay ==
    [][/\ cacheEnabled => cacheEnabled'
       /\ \A f \in Fqdns : cacheLast[f] # 0
            => /\ cacheLast'[f] # 0
               /\ Len(heap'[cacheLast'[f]].answer) > 0
               /\ cacheLast'[f] # cacheLast[f] => StoredByRun(f)]_vars

\* the entry for srv.test was stored by the first call and replaced by the
\* response of the second; the third call failed and was answered from it
C14_Witness ==
    /\ cacheLast["srv.test."] # 0
    /\ heap[cacheLast["srv.test."]].extra = TcpExtra
    /\ Ended(1) /\ calls[1].hostname = "srv.test" /\ Ret(1).runMsg.extra = GoodExtra
    /\ Ended(2) /\ calls[2].hostname = "srv.test" /\ Ret(2).runMsg.extra = TcpExtra
    /\ Ended(3) /\ Ret(3).runHit /\ Ret(3).addrs = <<"10.0.0.2:1000">>

\* C15: a call of SRVNoCacheContext or AllSRVNoCacheContext is never given the
\* stored response: when every exchange failed it returns the transport error
\* and no address.
C15_NoCacheIgnoresCache ==
    \A c \in Callers : Ended(c) /\ SkipCache(calls[c].op) /\ Ret(c).via # "ctx"
        => /\ ~Ret(c).runHit
           /\ Ret(c).runErr # NoErr => Ret(c).addrs = <<>> /\ Ret(c).err = Ret(c).runErr

\* C16: a call of AllSRV that has addresses has the targets as the hostnames
\* the nameserver supplied, whatever translating calls were made before it.
C16_AllSRVHostnames ==
    \A c \in Callers : Ended(c) /\ calls[c].op = "AllSRV" /\ Ret(c).addrs # <<>>
        => Ret(c).addrs = <<"1.srv.test.:1000", "2.srv.test.:1001">>

\* the answer caller 1 was given
PickInput == IF Ended(1) THEN Ret(1).runMsg.answer ELSE heap[1].answer

\* the records of srvs that have the lowest priority of all, in their order
LowestTier(srvs) == SelectSeq(srvs, LAMBDA s : s.priority = MinPriority(srvs))

\* C17: for every draw pickSRV returns a record of the answer whose priority is
\* the lowest in the answer, and the address SRV returns is the one of such a
\* record.
C17_LowestPriority ==
    /\ \A r \in PickDraws :
          /\ pickSRV(PickInput, r).priority = MinPriority(PickInput)
          /\ \E i \in 1 .. Len(PickInput) : pickSRV(PickInput, r) = PickInput[i]
    /\ Ended(1) /\ calls[1].op = "SRVNoTranslate"
          => /\ Ret(1).err = NoErr
             /\ \E i \in 1 .. Len(PickInput) :
                   /\ PickInput[i].priority = MinPriority(PickInput)
                   /\ Ret(1).addrs = <<srvToStr(PickInput[i], "")>>

\* the answer starts with a record of priority 2 and weight 2; the third
\* record, of priority 1 and weight 1, is the one returned
C17_Witness ==
    /\ Ended(1) /\ calls[1].op = "SRVNoTranslate"
    /\ Len(PickInput) = 3
    /\ PickInput[1].priority = 2 /\ PickInput[1].weight = 2
    /\ PickInput[2].priority = 1 /\ PickInput[3].priority = 1
    /\ PickInput[3].weight = 1
    /\ Ret(1).addrs = <<"c.:1000">>

\* the sum of the weights of the first i records of tier
RECURSIVE WeightBefore(_, _)
WeightBefore(tier, i) == IF i = 0 THEN 0 ELSE tier[i].weight + WeightBefore(tier, i - 1)

\* the answer has two records or more of the lowest priority, of weight sum > 0
WeightedTier(srvs) ==
    Len(LowestTier(srvs)) >= 2 /\ WeightBefore(LowestTier(srvs), Len(LowestTier(srvs))) > 0

\* C18: when the lowest tier has two records or more and weight sum S > 0,
\* pickSRV returns for the draw r the tier record i whose range
\* [w_1 + .. + w_(i-1), w_1 + .. + w_i) holds r: record i is chosen for exactly
\* weight_i of the S draws, and the address SRV returns is the one of a tier
\* record of weight > 0.
C18_WeightRanges ==
    LET tier == LowestTier(PickInput)
        S == WeightBefore(tier, Len(tier))
    IN WeightedTier(PickInput)
        => /\ \A i \in 1 .. Len(tier), r \in 0 .. (S - 1) :
                 (pickSRV(PickInput, r) = tier[i])
                    <=> (WeightBefore(tier, i - 1) <= r /\ r < WeightBefore(tier, i))
           /\ \A i \in 1 .. Len(tier) :
                 Cardinality({r \in 0 .. (S - 1) : pickSRV(PickInput, r) = tier[i]})
                    = tier[i].weight
           /\ Draws(PickInput) = 0 .. (S - 1)
           /\ Ended(1) /\ calls[1].op = "SRVNoTranslate"
                 => \E i \in 1 .. Len(tier) :
                       /\ tier[i].weight > 0
                       /\ Ret(1).addrs = <<srvToStr(tier[i], "")>>

\* the lowest tier is b of weight 1 and c of weight 2: b owns one draw, c two,
\* and c was returned
C18_Witness ==
    /\ Ended(1) /\ calls[1].op = "SRVNoTranslate"
    /\ Len(PickInput) = 3
    /\ PickInput[1].priority = 2
    /\ PickInput[2].priority = 1 /\ PickInput[2].weight = 1
    /\ PickInput[3].priority = 1 /\ PickInput[3].weight = 2
    /\ Cardinality({r \in 0 .. 2 : pickSRV(PickInput, r) = PickInput[2]}) = 1
    /\ Cardinality({r \in 0 .. 2 : pickSRV(PickInput, r) = PickInput[3]}) = 2
    /\ Ret(1).addrs = <<"c.:1000">>

\* C19: when the lowest tier has two records or more and their weights sum to
\* zero, every record of the tier is returned by pickSRV for some draw.
C19_ZeroWeightsAnyMember ==
    LET tier == LowestTier(PickInput)
    IN Len(tier) >= 2 /\ WeightBefore(tier, Len(tier)) = 0
        => \A i \in 1 .. Len(tier) :
              \E r \in Draws(PickInput) \cup PickDraws : pickSRV(PickInput, r) = tier[i]

\* where the address of record i of the answer stands in what AllSRV returned
PosOf(i) == CHOOSE j \in 1 .. Len(Ret(1).addrs) : Ret(1).addrs[j] = srvToStr(PickInput[i], "")

\* record a goes before record b: a lower priority, or the same and more weight
GoesBefore(a, b) ==
    \/ a.priority < b.priority
    \/ a.priority = b.priority /\ a.weight > b.weight

\* C20: AllSRV returns one address per SRV record of the answer, each record's
\* address once, by priority ascending then weight descending, and two records
\* of the same priority and weight in the order the nameserver gave them.
C20_SortedPermutation ==
    Ended(1) /\ calls[1].op = "AllSRV"
        => /\ Ret(1).err = NoErr
           /\ Len(Ret(1).addrs) = Len(PickInput)
           /\ \A i \in 1 .. Len(PickInput) :
                 Cardinality({j \in 1 .. Len(Ret(1).addrs) :
                                 Ret(1).addrs[j] = srvToStr(PickInput[i], "")}) = 1
           /\ \A i, k \in 1 .. Len(PickInput) : i < k
                 => (PosOf(i) < PosOf(k) <=> ~GoesBefore(PickInput[k], PickInput[i]))

\* a. and c. have priority 2 and the same weight, b. has priority 1: b. comes
\* first, then a. and c. as the nameserver gave them
C20_Witness ==
    /\ Ended(1) /\ calls[1].op = "AllSRV"
    /\ Len(PickInput) = 3
    /\ PickInput[1].priority = 2 /\ PickInput[2].priority = 1 /\ PickInput[3].priority = 2
    /\ PickInput[1].weight = PickInput[3].weight
    /\ Ret(1).addrs = <<"b.:1000", "a.:1000", "c.:1000">>

\* the wire exchanges of call 1's lookup so far, in order
ExecLog == IF Ended(1) THEN Ret(1).log ELSE runs[1].log

\* the response that wire exchange e brought (Free: none)
Brought(e) == IF e.out = "error" THEN Free ELSE Response(e.out)

\* entry i of the log is a UDP exchange that brought a truncated response
TruncatedAt(i) == ExecLog[i].net = "udp" /\ Brought(ExecLog[i]).truncated

\* entry i of the log is a TCP exchange that brought a response
TcpAnsweredAt(i) == ExecLog[i].net = "tcp" /\ ExecLog[i].out # "error"

\* with TCP fallback, a truncated UDP response is followed at once by a TCP
\* exchange with the same server, and a TCP exchange that brought a response is
\* the last exchange of the lookup
TcpFollowsTruncated ==
    ~IgnoreTruncated
        => /\ \A i \in 1 .. Len(ExecLog) : TruncatedAt(i)
                => IF i = Len(ExecLog) THEN runs[1].state = "tcp"
                   ELSE /\ ExecLog[i + 1].net = "tcp"
                        /\ ExecLog[i + 1].server = ExecLog[i].server
           /\ \A i \in 1 .. Len(ExecLog) : ExecLog[i].net = "tcp"
                => i > 1 /\ TruncatedAt(i - 1) /\ ExecLog[i - 1].server = ExecLog[i].server
           /\ \A i \in 1 .. Len(ExecLog) : TcpAnsweredAt(i)
                => i = Len(ExecLog) /\ runs[1].state \notin {"udp", "tcp"}

LastOf(log) == log[Len(log)]

\* run 1 makes a UDP exchange in this step and it brings a truncated response
TruncatedNow ==
    /\ runs[1].state = "udp"
    /\ Len(runs'[1].log) > Len(runs[1].log)
    /\ Brought(LastOf(runs'[1].log)).truncated

\* C22: with IgnoreTruncated set there never is a TCP exchange and TCPQueries
\* stays 0; a truncated UDP response is kept as the truncated one, counted in
\* TruncatedResponses, and the loop goes on with the next server, if there is
\* one, instead of stopping.
C22_NoTcpWhenIgnored ==
    /\ [](IgnoreTruncated
            => /\ stats.numTCPQueries = 0
               /\ \A r \in RunIds : runs[r].state # "tcp" /\ runs[r].ntcp = 0
               /\ \A i \in 1 .. Len(ExecLog) : ExecLog[i].net = "udp"
               /\ \A i \in 1 .. (Len(ExecLog) - 1) : TruncatedAt(i)
                    => ExecLog[i + 1].server # ExecLog[i].server)
    /\ [][IgnoreTruncated /\ TruncatedNow
            => /\ runs'[1].tres # 0
               /\ runs'[1].tres = runs'[1].res
               /\ heap'[runs'[1].tres] = Brought(LastOf(runs'[1].log))
               /\ stats'.numTruncatedResponses = stats.numTruncatedResponses + 1
               /\ stats'.numTCPQueries = stats.numTCPQueries
               /\ runs'[1].idx = runs[1].idx + 1
               /\ runs'[1].state =
                     (IF runs[1].idx < Len(runs[1].servers) THEN "udp" ELSE "finish")]_vars

\* with IgnoreTruncated set the first of two servers answered truncated and
\* the second in full: two UDP exchanges, no TCP query, the second's address
C22_Witness ==
    /\ IgnoreTruncated
    /\ Ended(1)
    /\ Len(ExecLog) = 2
    /\ ExecLog[1].server = "10.0.0.53:53" /\ ExecLog[1].out = "trunc"
    /\ ExecLog[2].server = "8.8.8.8:53" /\ ExecLog[2].out = "good"
    /\ stats.numTruncatedResponses = 1
    /\ stats.numTCPQueries = 0
    /\ stats.numUDPQueries = 2
    /\ Ret(1).addrs = <<"10.0.0.1:1000">>

\* entry i of the log brought the response doExchange returned: any response
\* but the format error that makes doExchange ask again
AnsweredAt(i) ==
    /\ ExecLog[i].out # "error"
    /\ ~(ExecLog[i].edns /\ Brought(ExecLog[i]).rcode = RcodeFormatError)

\* no exchange of the lookup brought a response that is complete (not
\* truncated) with a success status
NoCompleteSuccess ==
    \A i \in 1 .. Len(ExecLog) :
        \/ ExecLog[i].out = "error"
        \/ Brought(ExecLog[i]).truncated
        \/ Brought(ExecLog[i]).rcode # RcodeSuccess

\* C23: when the lookup ends with no complete successful response, a truncated
\* response with a success status taken at some server, and a response with a
\* status that is no success from a later server, the truncated response with
\* the success status is the one returned.
C23_TruncatedSuccessPreferred ==
    \A i, j \in 1 .. Len(ExecLog) :
        /\ Ended(1) /\ NoCompleteSuccess /\ i < j
        /\ TruncatedAt(i) /\ Brought(ExecLog[i]).rcode = RcodeSuccess
        /\ AnsweredAt(j) /\ Brought(ExecLog[j]).rcode # RcodeSuccess
        /\ ExecLog[j].server # ExecLog[i].server
        => Ret(1).runMsg = Brought(ExecLog[i])

\* entry i of the log brought a usable response: one that is not truncated
UsableAt(i) == AnsweredAt(i) /\ ~Brought(ExecLog[i]).truncated

\* C24: with TCP fallback, when a server's UDP response is truncated, the TCP
\* exchange with that server fails and no later exchange brings a usable
\* response, the lookup returns a truncated response, not a failure.
C24_TruncatedLastResort ==
    \A i \in 1 .. (Len(ExecLog) - 1) :
        /\ Ended(1) /\ ~IgnoreTruncated
        /\ TruncatedAt(i)
        /\ ExecLog[i + 1].net = "tcp" /\ ExecLog[i + 1].out = "error"
        /\ \A k \in (i + 2) .. Len(ExecLog) : ~UsableAt(k)
        => /\ Ret(1).runMsg # Free
           /\ Ret(1).runMsg.truncated
           /\ HasSRV(Ret(1).runMsg) => Ret(1).addrs # <<>>

\* where server s stands in the list srvs
PosIn(srvs, s) == CHOOSE k \in 1 .. Len(srvs) : srvs[k] = s

\* the servers are asked in the order of the list, none skipped: the first
\* exchange is with the first server and each one after it is with the same
\* server as the one before or with the next of the list
InListOrder ==
    LET srvs == calls[1].servers
    IN /\ Len(ExecLog) > 0 => ExecLog[1].server = srvs[1]
       /\ \A i \in 1 .. (Len(ExecLog) - 1) :
             \/ ExecLog[i + 1].server = ExecLog[i].server
             \/ PosIn(srvs, ExecLog[i + 1].server) = PosIn(srvs, ExecLog[i].server) + 1

\* a usable response ends the loop: it is the last exchange of the lookup
StopsAtUsable ==
    \A i \in 1 .. Len(ExecLog) : UsableAt(i)
        => i = Len(ExecLog) /\ runs[1].state \notin {"udp", "tcp"}

\* the truncated response the loop holds when it reaches entry i (0: none)
TruncatedBefore(i) ==
    IF \E k \in 1 .. (i - 1) : TruncatedAt(k)
    THEN CHOOSE k \in 1 .. (i - 1) :
            TruncatedAt(k) /\ \A l \in (k + 1) .. (i - 1) : ~TruncatedAt(l)
    ELSE 0

\* C25 as stated: the servers are contacted in list order, the first usable
\* response ends the loop, and that response is the one returned.
C25_FirstUsableReturned ==
    /\ InListOrder
    /\ StopsAtUsable
    /\ \A i \in 1 .. Len(ExecLog) : Ended(1) /\ UsableAt(i)
            => Ret(1).runMsg = Brought(ExecLog[i])

\* C25 (amended): the same order and the same stop; with the cache not in use
\* the usable response is the one returned unless its status is no success and
\* the truncated response the loop holds has a success status: then that
\* truncated response is returned.
C25_FirstUsableEndsLoop ==
    /\ InListOrder
    /\ StopsAtUsable
    /\ \A i \in 1 .. Len(ExecLog) : Ended(1) /\ UsableAt(i)
            => Ret(1).runMsg =
                  (IF /\ Brought(ExecLog[i]).rcode # RcodeSuccess
                      /\ TruncatedBefore(i) # 0
                      /\ Brought(ExecLog[TruncatedBefore(i)]).rcode = RcodeSuccess
                   THEN Brought(ExecLog[TruncatedBefore(i)])
                   ELSE Brought(ExecLog[i]))

\* of two servers the first answered in full: one exchange, the second server
\* was not contacted, and the address is the one of that response
C25_Witness ==
    /\ Ended(1)
    /\ calls[1].servers = TwoServers
    /\ Len(ExecLog) = 1
    /\ ExecLog[1].server = "10.0.0.53:53" /\ ExecLog[1].out = "good"
    /\ stats.numUDPQueries = 1
    /\ Ret(1).runMsg = Response("good")
    /\ Ret(1).addrs = <<"10.0.0.1:1000">>

\* run 1 makes an exchange in this step and doExchange returns an error
ErrorNow ==
    /\ runs[1].state \in {"udp", "tcp"}
    /\ Len(runs'[1].log) > Len(runs[1].log)
    /\ LastOf(runs'[1].log).out = "error"

\* the exchanges of the log that ended in an error
ErrorsIn(log) == {i \in 1 .. Len(log) : log[i].out = "error"}

\* C26: an exchange that errors adds exactly one to ExchangeErrors and the loop
\* goes on with the next server, if there is one; ExchangeErrors is the number
\* of exchanges that errored; and when a later server brings a usable response
\* with SRV records the lookup returns that answer and a nil error, however
\* many exchanges errored before.
C26_ErrorsNotSurfaced ==
    /\ [][ErrorNow
            => /\ stats'.numExchangeErrors = stats.numExchangeErrors + 1
               /\ runs'[1].idx = runs[1].idx + 1
               /\ runs'[1].state =
                     (IF runs[1].idx < Len(runs[1].servers) THEN "udp" ELSE "finish")]_vars
    /\ [](stats.numExchangeErrors = Cardinality(ErrorsIn(ExecLog)))
    /\ [](\A i \in 1 .. Len(ExecLog) :
            Ended(1) /\ UsableAt(i) /\ HasSRV(Brought(ExecLog[i]))
                => /\ Ret(1).err = NoErr
                   /\ Ret(1).runMsg = Brought(ExecLog[i])
                   /\ calls[1].op = "SRV" => Ret(1).addrs = AddrOf(Brought(ExecLog[i]))
                   /\ calls[1].op = "AllSRV" => Len(Ret(1).addrs) = 2)

\* the first server's exchange errored, the second answered with records: one
\* exchange error counted, the address and a nil error returned
C26_Witness ==
    /\ Ended(1)
    /\ Len(ExecLog) = 2
    /\ ExecLog[1].server = "10.0.0.53:53" /\ ExecLog[1].out = "error"
    /\ ExecLog[2].server = "8.8.8.8:53" /\ ExecLog[2].out = "good"
    /\ stats.numExchangeErrors = 1
    /\ Ret(1).err = NoErr
    /\ Ret(1).addrs = <<"10.0.0.1:1000">>

\* the lookup asked at least one server and the last exchange with every
\* server it asked ended in an error
AllFailed ==
    /\ Len(ExecLog) > 0
    /\ \A i \in 1 .. Len(ExecLog) :
          (i = Len(ExecLog) \/ ExecLog[i + 1].server # ExecLog[i].server)
              => ExecLog[i].out = "error"

\* C27: with the cache not in use, a lookup whose exchanges failed at every
\* server returns no address and the error of the last exchange it made, the
\* one with the last server of the list; a lookup with an empty server list
\* makes no exchange and returns "no available nameservers".
C27_LastErrorOrGeneric ==
    /\ Ended(1) /\ AllFailed
          => /\ Ret(1).addrs = <<>>
             /\ Ret(1).runMsg = Free
             /\ LastOf(ExecLog).server = calls[1].servers[Len(calls[1].servers)]
             /\ Ret(1).err = [kind |-> "exchange", arg |-> LastOf(ExecLog).server]
    /\ Ended(1) /\ calls[1].servers = <<>>
          => /\ ExecLog = <<>>
             /\ stats.numUDPQueries = 0 /\ stats.numTCPQueries = 0
             /\ Ret(1).addrs = <<>>
             /\ Ret(1).err = [kind |-> "no available nameservers", arg |-> ""]

\* both servers failed: no address and the error of the exchange with the
\* second one
C27_Witness ==
    /\ Ended(1)
    /\ calls[1].servers = TwoServers
    /\ Len(ExecLog) = 2
    /\ ExecLog[1].out = "error" /\ ExecLog[2].out = "error"
    /\ stats.numExchangeErrors = 2
    /\ Ret(1).addrs = <<>>
    /\ Ret(1).err = [kind |-> "exchange", arg |-> "8.8.8.8:53"]

\* entry i of the log is a UDP query with EDNS0 answered by a format error
FormErrAt(i) ==
    /\ ExecLog[i].net = "udp" /\ ExecLog[i].edns
    /\ ExecLog[i].out # "error"
    /\ Brought(ExecLog[i]).rcode = RcodeFormatError

\* entry i of the log is a UDP query without EDNS0
RetryAt(i) == ExecLog[i].net = "udp" /\ ~ExecLog[i].edns

\* the exchanges of the log with server s over net
ExchangesWith(s, net) ==
    {i \in 1 .. Len(ExecLog) : ExecLog[i].server = s /\ ExecLog[i].net = net}

\* run 1 makes a UDP query and its retry without EDNS0 in this step
RetryNow ==
    /\ runs[1].state = "udp"
    /\ Len(runs'[1].log) = Len(runs[1].log) + 2

\* C28: a format error in answer to a UDP query with EDNS0 is followed at once
\* by one query to the same server without EDNS0, and a query without EDNS0 is
\* only made then and is never repeated; what the retry brings, a response or
\* an error, is what the loop has from that server; and no server gets more
\* than two exchanges over one transport in one lookup.
C28_RetryOnceWithoutEdns ==
    /\ [](\A i \in 1 .. Len(ExecLog) : FormErrAt(i)
            => /\ i < Len(ExecLog)
               /\ RetryAt(i + 1)
               /\ ExecLog[i + 1].server = ExecLog[i].server)
    /\ [](\A i \in 1 .. Len(ExecLog) : RetryAt(i)
            => /\ i > 1 /\ FormErrAt(i - 1)
               /\ i < Len(ExecLog)
                    => \/ ExecLog[i + 1].server # ExecLog[i].server
                       \/ ExecLog[i + 1].net = "tcp")
    /\ [](\A s \in {"10.0.0.53:53", "8.8.8.8:53"} :
            /\ Cardinality(ExchangesWith(s, "udp")) <= 2
            /\ Cardinality(ExchangesWith(s, "tcp")) <= 1)
    /\ [][RetryNow
            => LET e == LastOf(runs'[1].log)
               IN IF e.out = "error"
                  THEN /\ runs'[1].res = 0
                       /\ runs'[1].err = [kind |-> "exchange", arg |-> e.server]
                       /\ stats'.numExchangeErrors = stats.numExchangeErrors + 1
                  ELSE /\ runs'[1].res # 0
                       /\ heap'[runs'[1].res] = Response(e.out)
                       /\ runs'[1].err = NoErr
                       /\ stats'.numExchangeErrors = stats.numExchangeErrors]_vars

\* the server answered the query with EDNS0 by a format error and the query
\* without it by the records: two exchanges with it, and the address returned
C28_Witness ==
    /\ Ended(1)
    /\ Len(ExecLog) = 2
    /\ ExecLog[1] = [net |-> "udp", server |-> "10.0.0.53:53", edns |-> TRUE, out |-> "formerr"]
    /\ ExecLog[2] = [net |-> "udp", server |-> "10.0.0.53:53", edns |-> FALSE, out |-> "good"]
    /\ Ret(1).err = NoErr
    /\ Ret(1).addrs = <<"10.0.0.1:1000">>

\* what lookupSRV is about to return to call c, whose innerLookupSRV is over
LookupOf(c) ==
    LookupTail(heap, runs[calls[c].res].msg, runs[calls[c].res].rerr,
               calls[c].hostname, ReplaceWithIPs(calls[c].op))

\* C29: a lookup whose response, as innerLookupSRV returned it, holds no SRV
\* record (no record at all, or only records of other types) returns
\* ErrNotFound for the name and no address; no call returns a nil error with no
\* address; and lookupSRV never hands srv or allSRV an empty set of records
\* with a nil error, so pickSRV is never called on an empty set.
C29_NoRecordsNotFound ==
    /\ \A c \in Callers : Ended(c) /\ Ret(c).runMsg # Free /\ ~HasSRV(Ret(c).runMsg)
            => /\ Ret(c).err = [kind |-> "ErrNotFound", arg |-> calls[c].hostname]
               /\ Ret(c).addrs = <<>>
    /\ \A c \in Callers : Ended(c) /\ Ret(c).err = NoErr => Ret(c).addrs # <<>>
    /\ \A c \in Callers : calls[c].pc = "inner" /\ runs[calls[c].res].state = "returned"
            => (Len(LookupOf(c).ans) = 0 => LookupOf(c).err # NoErr)

\* the server answered the call of AllSRV with an A record only: ErrNotFound
\* and no address
C29_Witness ==
    /\ Ended(1) /\ calls[1].op = "AllSRV"
    /\ Len(ExecLog) = 1 /\ ExecLog[1].out = "aonly"
    /\ Ret(1).runMsg = Response("aonly")
    /\ Ret(1).err = [kind |-> "ErrNotFound", arg |-> "srv.test"]
    /\ Ret(1).addrs = <<>>

\* the arguments that are a literal IP address and a port
IpPortLiterals == {"10.0.0.2:9999", "[2607:5300:60:92e7::1]:53"}

\* call c is a single-target call with such an argument
LiteralCall(c) ==
    /\ calls[c].pc # "idle"
    /\ ~IsAll(calls[c].op)
    /\ calls[c].input \in IpPortLiterals

\* C30: a single-target call whose argument is a literal "ip:port" returns in
\* the step that makes it, with the argument as its address and a nil error;
\* that step changes no counter, no cache entry, no registry entry, no run and
\* no message, and the call never makes an exchange; as long as such calls are
\* the only ones made, every counter is 0 and the cache and the registry are
\* empty.
C30_LiteralPassthrough ==
    /\ [][\A c \in Callers :
            /\ calls[c].pc = "idle" /\ calls'[c].pc # "idle"
            /\ ~IsAll(calls'[c].op) /\ calls'[c].input \in IpPortLiterals
            => /\ calls'[c].pc = "done"
               /\ calls'[c].ret.addrs = <<calls'[c].input>>
               /\ calls'[c].ret.err = NoErr
               /\ UNCHANGED <<stats, cacheLast, inFlights, runs, heap, nRuns, crashed>>]_vars
    /\ [](\A c \in Callers : LiteralCall(c)
            => /\ Ended(c)
               /\ Ret(c).addrs = <<calls[c].input>>
               /\ Ret(c).err = NoErr
               /\ Ret(c).log = <<>>
               /\ calls[c].res = 0 /\ ~calls[c].loaded)
    /\ []((\A c \in Callers : calls[c].pc # "idle" => LiteralCall(c))
            => /\ stats = ZeroStats
               /\ nRuns = 0
               /\ \A f \in Fqdns : cacheLast[f] = 0
               /\ \A k \in Keys : inFlights[k] = 0)

\* SRV was called with the IPv4 literal and with the IPv6 literal, which came
\* back as they were, and with a name and a port, which was looked up: one
\* exchange in all, and the address has the port of the argument
C30_Witness ==
    /\ \E c \in Callers : LiteralCall(c) /\ Ended(c) /\ Ret(c).addrs = <<"10.0.0.2:9999">>
    /\ \E c \in Callers :
          LiteralCall(c) /\ Ended(c) /\ Ret(c).addrs = <<"[2607:5300:60:92e7::1]:53">>
    /\ \E c \in Callers :
          /\ Ended(c) /\ calls[c].op = "SRV" /\ calls[c].input = "srv.test:9999"
          /\ Ret(c).addrs = <<"10.0.0.1:9999">> /\ Ret(c).err = NoErr
    /\ stats.numUDPQueries = 1

\* the lookup behind call c, a call of MaybeSRV that is over, failed: the
\* caller left through its cancelled context, or every exchange failed, or the
\* response it was handed holds no SRV record
LookupFailed(c) ==
    \/ Ret(c).via = "ctx"
    \/ Ret(c).runErr # NoErr
    \/ ~HasSRV(Ret(c).runMsg)

\* C31: MaybeSRV never fails: no call of it panics, and it returns one string
\* and no error: its argument, with no exchange made, when the argument has a
\* port; otherwise the resolved address when the lookup succeeded and its
\* argument when the lookup failed in any way.
C31_MaybeNeverFails ==
    \A c \in Callers : calls[c].op = "MaybeSRV" =>
        /\ calls[c].pc # "panicked"
        /\ Ended(c) =>
            /\ Ret(c).err = NoErr
            /\ IF SplitHostPort(calls[c].input).port # ""
               THEN Ret(c).addrs = <<calls[c].input>> /\ Ret(c).log = <<>>
                    /\ Ret(c).via = "literal"
               ELSE IF LookupFailed(c) THEN Ret(c).addrs = <<calls[c].input>>
               ELSE Ret(c).addrs = AddrOf(Ret(c).runMsg)

\* the ports an address of the model can carry
AddrPorts == {"80", "1000", "1001", "9999"}

\* C32: SRVNoPort is SRV without the port: a call of SRVNoPort returns no host
\* when SRVContext returned no address to it, and when SRVContext returned the
\* address H:port it returns the host H, a substitute from the last-good cache
\* included.
C32_SameAsSRV ==
    \A c \in Callers : Ended(c) /\ calls[c].op = "SRVNoPort" =>
        IF Ret(c).sub.addrs = <<>> THEN Ret(c).addrs = <<>>
        ELSE /\ Len(Ret(c).addrs) = 1
             /\ \E port \in AddrPorts :
                    JoinHostPort(Ret(c).addrs[1], port) = Ret(c).sub.addrs[1]

RECURSIVE ApplyTimes(_, _, _)
ApplyTimes(hook, m, n) == IF n = 0 THEN m ELSE ApplyTimes(hook, ApplyHook(hook, m), n - 1)

\* the responses the servers of SpecHook send
HookRaw == {Response(k) : k \in (HookUdp \cup HookTcp) \ {"error"}}

\* m is a response after the hook (and maybe the translation of its targets),
\* and is none of the responses the hook changes, as the server sent it
Preprocessed(m) ==
    /\ \E raw \in HookRaw, n \in 1 .. 2, t \in BOOLEAN :
            m = TranslatedMsg(ApplyTimes(Preprocess, raw, n), t)
    /\ \A raw \in HookRaw, t \in BOOLEAN :
            ApplyHook(Preprocess, raw) # raw => m # TranslatedMsg(raw, t)

\* C34: with a Preprocess hook set, the message stored in the last-good cache,
\* the message innerLookupSRV returns and the message a caller is handed (from
\* the server or from the cache) are responses the hook was applied to, never a
\* response as the server sent it; the addresses a caller has are made from
\* such a message, so with either hook at most one of the two records.
C34_PreprocessedOnly ==
    /\ \A f \in Fqdns : cacheLast[f] # 0 => Preprocessed(heap[cacheLast[f]])
    /\ \A r \in RunIds : runs[r].state = "returned" /\ runs[r].msg # 0
            => Preprocessed(heap[runs[r].msg])
    /\ \A c \in Callers : Ended(c) =>
            /\ Ret(c).msg # Free => Preprocessed(Ret(c).msg)
            /\ Len(Ret(c).addrs) <= 1
            /\ Ret(c).addrs # <<>> =>
                  LET ans == answersFromMsg(Ret(c).msg, ReplaceWithIPs(calls[c].op))
                  IN \E i \in 1 .. Len(ans) : Ret(c).addrs[1] = srvToStr(ans[i], "")

\* a call of AllSRV was answered from the cache with a preprocessed response,
\* stored by an earlier call
C34_Witness ==
    \E c \in Callers :
        /\ Ended(c)
        /\ calls[c].op = "AllSRV"
        /\ Ret(c).runHit
        /\ Len(Ret(c).addrs) = 1
        /\ Ret(c).runErr # NoErr

\* run r leaves line 245 in this step: innerLookupSRV has called the hook
Preprocessing(r) == runs[r].state = "finish" /\ runs'[r].state # "finish"

\* C40: the hook is applied at most once to a response within one query: the
\* step in which innerLookupSRV calls the hook leaves the last response, and
\* the truncated response it kept, as one application of the hook makes them
\* (or drops a message nothing refers to any more).
C40_HookOnce ==
    [][\A r \in RunIds : Preprocessing(r) =>
          \A o \in {runs[r].res, runs[r].tres} \ {0} :
              heap'[o] \in {ApplyHook(Preprocess, heap[o]), Free}]_vars

\* C39: every entry of the last-good cache holds a response with an SRV record,
\* so a call that was given the stored response has an address and never
\* returns ErrNotFound.
C39_EntriesHaveSRV ==
    /\ \A f \in Fqdns : cacheLast[f] # 0 => HasSRV(heap[cacheLast[f]])
    /\ \A c \in Callers : Ended(c) /\ Ret(c).runHit =>
            /\ Ret(c).addrs # <<>>
            /\ Ret(c).err.kind # "ErrNotFound"

\* run r is in progress: registered by a caller, and its deferred Delete has
\* not run yet
InProgress(r) == runs[r].sif /\ runs[r].state \in InnerStates \cup {"delete"}

\* C37: the registry holds exactly the runs in progress: every entry is the
\* run in progress that was stored under that key, every run in progress is the
\* entry of its key, so with no run in progress the registry is empty; and the
\* only step that removes an entry is the deferred Delete of the run that the
\* entry is, which removes that entry and no other.
C37_RegistryExact ==
    /\ [](\A k \in Keys : inFlights[k] # 0
              => InProgress(inFlights[k]) /\ runs[inFlights[k]].key = k)
    /\ [](\A r \in RunIds : InProgress(r) => inFlights[runs[r].key] = r)
    /\ []((\A r \in RunIds : ~InProgress(r)) => \A k \in Keys : inFlights[k] = 0)
    /\ [][\A k \in Keys : inFlights[k] # 0 /\ inFlights'[k] # inFlights[k]
              => /\ inFlights'[k] = 0
                 /\ runs[inFlights[k]].state = "delete"
                 /\ runs'[inFlights[k]].state # "delete"
                 /\ \A j \in Keys \ {k} : inFlights'[j] = inFlights[j]]_vars

\* a run that failed has removed its entry and is about to fire its signal,
\* the run for the other name is still registered, and a caller was cancelled
\* while it waited
C37_Witness ==
    \E r, q \in RunIds :
        /\ runs[r].sif /\ runs[r].state = "close" /\ runs[r].err # NoErr
        /\ InProgress(q) /\ runs[q].key # runs[r].key
        /\ inFlights[runs[q].key] = q /\ inFlights[runs[r].key] = 0
        /\ \E c \in Callers : Ended(c) /\ Ret(c).via = "ctx"

\* calls c and d are over, were calls of the same all-targets method on the
\* same name, and the server sent the same response to the lookups behind them
SameLookup(c, d) ==
    /\ Ended(c) /\ Ended(d)
    /\ IsAll(calls[c].op) /\ calls[d].op = calls[c].op
    /\ calls[d].input = calls[c].input
    /\ Ret(c).log # <<>> /\ Ret(d).log = Ret(c).log

Waiting(c) == calls[c].pc \in {"loadOrStore", "select"}

\* C38: with SingleInFlight, under fair scheduling and exchanges that end,
\* every call that is under way eventually returns, and every run that was
\* registered eventually fires its completion signal.
C38_EveryCallReturns ==
    /\ \A c \in Callers : Waiting(c) ~> Ended(c)
    /\ \A r \in RunIds : InProgress(r) ~> (runs[r].done \/ runs[r].state = "none")

CtxIds == 1 .. Len(ctxs)

\* context i was made from a context that WithoutCancel produced
Detached(i) == ctxs[i].parent # 0 /\ ctxs[ctxs[i].parent].kind = "withoutCancel"

\* C35: a context that WithoutCancel produced is never cancelled (its Done
\* channel is never closed) and has no deadline, whatever its parent does; a
\* context made from it is cancelled by its own cancel function or its own
\* deadline only, never with its ancestors; and one made with WithDeadline has
\* the deadline it was made with, not an earlier one of an ancestor, and is not
\* cancelled by a deadline before that one has come.
C35_NeverCancelled ==
    /\ \A i \in CtxIds : ctxs[i].kind = "withoutCancel"
            => ~canceled(ctxs, i) /\ Deadline(ctxs, i) = 0
    /\ \A i \in CtxIds : Detached(i) =>
            /\ canceled(ctxs, i) => ctxs[i].by \in {"own", "timer"}
            /\ ctxs[i].asked # 0 =>
                  /\ Deadline(ctxs, i) = ctxs[i].asked
                  /\ ctxs[i].by = "timer" => now >= ctxs[i].asked

\* a context with a deadline was cancelled by it, the context WithoutCancel
\* made from it is not cancelled, and the context made from that one with a
\* later deadline is not cancelled either
C35_Witness ==
    \E a, b, c \in CtxIds :
        /\ ctxs[a].kind = "timer" /\ canceled(ctxs, a) /\ ctxs[a].by = "timer"
        /\ ctxs[b].kind = "withoutCancel" /\ ctxs[b].parent = a
        /\ ctxs[c].parent = b /\ ctxs[c].asked > ctxs[a].deadline
        /\ ~canceled(ctxs, c) /\ ~canceled(ctxs, b)

====
